---- MODULE Spec2Model ----
(***************************************************************************)
(* Model of the serial_protocol package: the COBS frame codec (cobs.py),   *)
(* the TLV record codec (tlv.py), the numeric helpers (utils.py) and the   *)
(* packet assembler (packet.py).                                           *)
(*                                                                         *)
(* A link session is modelled: a caller hands a request to an encoder, the *)
(* encoder's bytes travel on the wire (where they may be altered), and a   *)
(* decoder is run on what arrives.  Bytes are integers 0..255, byte arrays *)
(* are sequences, Python's 0-based indices are kept and 1 is added where a *)
(* TLA+ sequence is indexed.                                               *)
(***************************************************************************)
EXTENDS Integers, Sequences, FiniteSets, TLC

(***************************************************************************)
(* Bounds of the explored input space.                                     *)
(***************************************************************************)
\* longest short byte array handed to the frame encoder
MaxDataLen == 3
\* longest short byte array injected on the wire for the frame decoder
MaxFrameLen == 4
\* longest byte array injected on the wire for the record decoder
MaxRecordLen == 6
\* longest packet body (before the checksum) injected for the packet decoder
MaxBodyLen == 3

(***************************************************************************)
(* Program constants.                                                      *)
(***************************************************************************)
\* cobs.py:36, the frame delimiter
Delimiter == 0
\* cobs.py:67, the block length counter value that closes a block
MaxBlock == 255

(***************************************************************************)
(* Generic helpers.                                                        *)
(***************************************************************************)
\* all sequences over S of length 0..n
SeqsUpTo(S, n) == UNION {[1..k -> S] : k \in 0..n}

\* bytearray.count(x)
CountOf(s, x) == Cardinality({i \in 1..Len(s) : s[i] = x})

\* a run of n non-zero bytes 1, 2, ..., 255, 1, 2, ...
NonZeroRun(n) == [i \in 1..n |-> ((i - 1) % 255) + 1]

\* the outcome of one call: err is "none" or the class of the raised exception
Ok(v) == [err |-> "none", val |-> v]
Raise(e) == [err |-> e, val |-> <<>>]

(***************************************************************************)
(* cobs.encode_bytearray                                                   *)
(***************************************************************************)
\* EncodeStep without the block cap of cobs.py:67-76: the counter runs past 255
EncodeStepNoCap(st, byte) ==
    IF byte = 0
    THEN LET enc2 == Append([st.encoded EXCEPT ![st.zero_marker_pos + 1] =
                                                   st.zero_block_len], 0)
         IN  [encoded |-> enc2, zero_block_len |-> 1,
              zero_marker_pos |-> Len(enc2) - 1]
    ELSE [encoded |-> Append(st.encoded, byte),
          zero_block_len |-> st.zero_block_len + 1,
          zero_marker_pos |-> st.zero_marker_pos]

\* EncodeStep that closes a block one byte early (the test of cobs.py:67
\* against 0xfe)
EncodeStepCapEarly(st, byte) ==
    LET full == st.zero_block_len = MaxBlock - 1
        enc1 == IF full
                THEN Append([st.encoded EXCEPT ![st.zero_marker_pos + 1] =
                                                   MaxBlock], 0)
                ELSE st.encoded
        pos1 == IF full THEN Len(enc1) - 1 ELSE st.zero_marker_pos
        len1 == IF full THEN 1 ELSE st.zero_block_len
    IN  IF byte = 0
        THEN LET enc2 == Append([enc1 EXCEPT ![pos1 + 1] = len1], 0)
             IN  [encoded |-> enc2, zero_block_len |-> 1,
                  zero_marker_pos |-> Len(enc2) - 1]
        ELSE [encoded |-> Append(enc1, byte), zero_block_len |-> len1 + 1,
              zero_marker_pos |-> pos1]

\* EncodeStep that keeps counting across a zero (cobs.py:83 left out)
EncodeStepNoReset(st, byte) ==
    LET full == st.zero_block_len = MaxBlock
        enc1 == IF full
                THEN Append([st.encoded EXCEPT ![st.zero_marker_pos + 1] =
                                                   MaxBlock], 0)
                ELSE st.encoded
        pos1 == IF full THEN Len(enc1) - 1 ELSE st.zero_marker_pos
        len1 == IF full THEN 1 ELSE st.zero_block_len
    IN  IF byte = 0
        THEN LET enc2 == Append([enc1 EXCEPT ![pos1 + 1] = len1], 0)
             IN  [encoded |-> enc2, zero_block_len |-> len1,
                  zero_marker_pos |-> Len(enc2) - 1]
        ELSE [encoded |-> Append(enc1, byte), zero_block_len |-> len1 + 1,
              zero_marker_pos |-> pos1]

\* EncodeStep that closes a full block only before a non-zero byte
EncodeStepCapBeforeNonZero(st, byte) ==
    LET full == st.zero_block_len = MaxBlock /\ byte # 0
        enc1 == IF full
                THEN Append([st.encoded EXCEPT ![st.zero_marker_pos + 1] =
                                                   MaxBlock], 0)
                ELSE st.encoded
        pos1 == IF full THEN Len(enc1) - 1 ELSE st.zero_marker_pos
        len1 == IF full THEN 1 ELSE st.zero_block_len
    IN  IF byte = 0
        THEN LET enc2 == Append([enc1 EXCEPT ![pos1 + 1] = len1], 0)
             IN  [encoded |-> enc2, zero_block_len |-> 1,
                  zero_marker_pos |-> Len(enc2) - 1]
        ELSE [encoded |-> Append(enc1, byte), zero_block_len |-> len1 + 1,
              zero_marker_pos |-> pos1]

\* cobs.py:66-86, the body of the scan loop for one input byte
EncodeStep(st, byte) ==
    LET \* cobs.py:67-76, close a full block
        full == st.zero_block_len = MaxBlock
        enc1 == IF full
                THEN Append([st.encoded EXCEPT ![st.zero_marker_pos + 1] =
                                                   MaxBlock], 0)
                ELSE st.encoded
        pos1 == IF full THEN Len(enc1) - 1 ELSE st.zero_marker_pos
        len1 == IF full THEN 1 ELSE st.zero_block_len
    IN  IF byte = 0
        THEN \* cobs.py:79-83
             LET enc2 == Append([enc1 EXCEPT ![pos1 + 1] = len1], 0)
             IN  [encoded |-> enc2, zero_block_len |-> 1,
                  zero_marker_pos |-> Len(enc2) - 1]
        ELSE \* cobs.py:84-86
             [encoded |-> Append(enc1, byte), zero_block_len |-> len1 + 1,
              zero_marker_pos |-> pos1]

\* cobs.py:65, "for byte in data" over data[lo..hi] (1-based, lo <= hi); the
\* range is split in halves, and the state after the first half is inspected
\* before the second half runs, only to keep the evaluation stack shallow
RECURSIVE EncodeLoop(_, _, _, _)
EncodeLoop(data, st, lo, hi) ==
    IF lo = hi THEN EncodeStep(st, data[lo])
    ELSE LET mid == (lo + hi) \div 2
             left == EncodeLoop(data, st, lo, mid)
         IN  IF Len(left.encoded) > 0
             THEN EncodeLoop(data, left, mid + 1, hi)
             ELSE left

\* encode_bytearray without the single-zero special case of cobs.py:58-59
encode_bytearray_no_special(data) ==
    IF Len(data) = 0 THEN Raise("ValueError")
    ELSE LET st == EncodeLoop(data, [encoded |-> <<0>>, zero_block_len |-> 1,
                                    zero_marker_pos |-> 0], 1, Len(data))
             enc == [st.encoded EXCEPT ![st.zero_marker_pos + 1] =
                                           st.zero_block_len]
         IN  Ok(Append(enc, Delimiter))

\* encode_bytearray without the empty input check of cobs.py:56-57: the scan
\* loop does not run and the placeholder becomes the marker 1
encode_bytearray_empty_ok(data) ==
    IF Len(data) = 0 THEN Ok(<<1, Delimiter>>)
    ELSE IF Len(data) = 1 /\ data[1] = 0 THEN Ok(<<1, 0>>)
    ELSE LET st == EncodeLoop(data, [encoded |-> <<0>>, zero_block_len |-> 1,
                                    zero_marker_pos |-> 0], 1, Len(data))
             enc == [st.encoded EXCEPT ![st.zero_marker_pos + 1] =
                                           st.zero_block_len]
         IN  Ok(Append(enc, Delimiter))

\* encode_bytearray whose final marker counts the delimiter as well
encode_bytearray_final_marker_long(data) ==
    IF Len(data) = 0 THEN Raise("ValueError")
    ELSE IF Len(data) = 1 /\ data[1] = 0 THEN Ok(<<1, 0>>)
    ELSE LET st == EncodeLoop(data, [encoded |-> <<0>>, zero_block_len |-> 1,
                                    zero_marker_pos |-> 0], 1, Len(data))
             enc == [st.encoded EXCEPT ![st.zero_marker_pos + 1] =
                                           st.zero_block_len + 1]
         IN  Ok(Append(enc, Delimiter))

\* cobs.py:36-91
encode_bytearray(data) ==
    IF Len(data) = 0 THEN Raise("ValueError")
    ELSE IF Len(data) = 1 /\ data[1] = 0 THEN Ok(<<1, 0>>)
    ELSE LET st == EncodeLoop(data, [encoded |-> <<0>>, zero_block_len |-> 1,
                                    zero_marker_pos |-> 0], 1, Len(data))
             enc == [st.encoded EXCEPT ![st.zero_marker_pos + 1] =
                                           st.zero_block_len]
         IN  Ok(Append(enc, Delimiter))

(***************************************************************************)
(* cobs.decode_bytearray                                                   *)
(***************************************************************************)
\* DecodeLoop that reinserts a zero after a full block too (cobs.py:178-180
\* without overhead_byte)
RECURSIVE DecodeLoopZeroAfterFull(_, _, _)
DecodeLoopZeroAfterFull(data, idx, decoded) ==
    IF ~(idx < Len(data) - 1) THEN Ok(decoded)
    ELSE
      LET bytes_until_delim == data[idx + 1]
      IN  IF bytes_until_delim + idx >= Len(data)
          THEN Raise("ValueError")
          ELSE
            LET n == IF bytes_until_delim - 1 > 0
                     THEN bytes_until_delim - 1 ELSE 0
                copied == decoded \o SubSeq(data, idx + 2, idx + 1 + n)
                idx2 == idx + 1 + n
                decoded2 == IF idx2 < Len(data) - 1
                            THEN Append(copied, 0) ELSE copied
            IN  DecodeLoopZeroAfterFull(data, idx2, decoded2)

\* DecodeLoop that reinserts a zero after the final block too (cobs.py:179-180
\* without data_left_to_decode)
RECURSIVE DecodeLoopZeroAfterLast(_, _, _)
DecodeLoopZeroAfterLast(data, idx, decoded) ==
    IF ~(idx < Len(data) - 1) THEN Ok(decoded)
    ELSE
      LET bytes_until_delim == data[idx + 1]
      IN  IF bytes_until_delim + idx >= Len(data)
          THEN Raise("ValueError")
          ELSE
            LET n == IF bytes_until_delim - 1 > 0
                     THEN bytes_until_delim - 1 ELSE 0
                copied == decoded \o SubSeq(data, idx + 2, idx + 1 + n)
                idx2 == idx + 1 + n
                decoded2 == IF bytes_until_delim # MaxBlock
                            THEN Append(copied, 0) ELSE copied
            IN  DecodeLoopZeroAfterLast(data, idx2, decoded2)

\* cobs.py:162-181, the block loop; idx is the 0-based index of a marker
RECURSIVE DecodeLoop(_, _, _)
DecodeLoop(data, idx, decoded) ==
    IF ~(idx < Len(data) - 1) THEN Ok(decoded)
    ELSE
      LET bytes_until_delim == data[idx + 1]
      IN  IF bytes_until_delim + idx >= Len(data)
          THEN Raise("ValueError")
          ELSE
            LET n == IF bytes_until_delim - 1 > 0
                     THEN bytes_until_delim - 1 ELSE 0
                \* cobs.py:171-174
                copied == decoded \o SubSeq(data, idx + 2, idx + 1 + n)
                idx2 == idx + 1 + n
                overhead_byte == bytes_until_delim = MaxBlock
                data_left_to_decode == idx2 < Len(data) - 1
                decoded2 == IF ~overhead_byte /\ data_left_to_decode
                            THEN Append(copied, 0) ELSE copied
            IN  DecodeLoop(data, idx2, decoded2)

\* decode_bytearray without the duplicate delimiter check of cobs.py:151-153
decode_bytearray_lenient(data) ==
    IF Len(data) < 2 THEN Raise("ValueError")
    ELSE IF data[Len(data)] # 0 THEN Raise("ValueError")
    ELSE IF Len(data) = 2 /\ data[1] = 1 THEN Ok(<<0>>)
    ELSE DecodeLoop(data, 0, <<>>)

\* decode_bytearray without the single-zero special case of cobs.py:155-157
decode_bytearray_no_special(data) ==
    IF Len(data) < 2 THEN Raise("ValueError")
    ELSE IF data[Len(data)] # 0 THEN Raise("ValueError")
    ELSE IF CountOf(data, 0) > 1 THEN Raise("ValueError")
    ELSE DecodeLoop(data, 0, <<>>)

\* cobs.py:123-183
decode_bytearray(data) ==
    IF Len(data) < 2 THEN Raise("ValueError")
    ELSE IF data[Len(data)] # 0 THEN Raise("ValueError")
    ELSE IF CountOf(data, 0) > 1 THEN Raise("ValueError")
    ELSE IF Len(data) = 2 /\ data[1] = 1 THEN Ok(<<0>>)
    ELSE DecodeLoop(data, 0, <<>>)

(***************************************************************************)
(* Python values.                                                          *)
(*                                                                         *)
(* A Python int is unbounded; it is kept as a sign and a magnitude in      *)
(* little-endian base-65536 limbs with no leading zero limb, so that the   *)
(* full uint32 range and the values beyond it are represented exactly.     *)
(* A Python float is an IEEE-754 binary64: sign s, biased exponent e, and  *)
(* the 52-bit fraction split in its top 23 bits mh and low 29 bits ml.     *)
(* NaN values are left out of the float domain.                            *)
(***************************************************************************)
Limb == 65536

\* strip the most significant zero limbs
RECURSIVE Canon(_)
Canon(m) ==
    IF m = <<>> THEN m
    ELSE IF m[Len(m)] = 0 THEN Canon(SubSeq(m, 1, Len(m) - 1))
    ELSE m

\* magnitude of a natural number small enough for the checker's integers
RECURSIVE NatMag(_)
NatMag(n) == IF n = 0 THEN <<>> ELSE <<n % Limb>> \o NatMag(n \div Limb)

\* the Python int with the value n
PyInt(n) == IF n < 0 THEN [neg |-> TRUE, mag |-> NatMag(0 - n)]
            ELSE [neg |-> FALSE, mag |-> NatMag(n)]

\* a < b on magnitudes
RECURSIVE MagLess(_, _)
MagLess(a, b) ==
    IF Len(a) # Len(b) THEN Len(a) < Len(b)
    ELSE IF a = <<>> THEN FALSE
    ELSE IF a[Len(a)] # b[Len(b)] THEN a[Len(a)] < b[Len(b)]
    ELSE MagLess(SubSeq(a, 1, Len(a) - 1), SubSeq(b, 1, Len(b) - 1))

\* Python's a <= b on ints
PyLeq(a, b) ==
    IF a.neg /\ ~b.neg THEN TRUE
    ELSE IF ~a.neg /\ b.neg THEN FALSE
    ELSE IF a.neg THEN ~MagLess(a.mag, b.mag)
    ELSE ~MagLess(b.mag, a.mag)

\* a + b on magnitudes, c is the carry
RECURSIVE MagAdd(_, _, _)
MagAdd(a, b, c) ==
    IF a = <<>> /\ b = <<>> THEN (IF c = 0 THEN <<>> ELSE <<c>>)
    ELSE LET x == IF a = <<>> THEN 0 ELSE Head(a)
             y == IF b = <<>> THEN 0 ELSE Head(b)
             t == x + y + c
         IN  <<t % Limb>> \o MagAdd(IF a = <<>> THEN a ELSE Tail(a),
                                    IF b = <<>> THEN b ELSE Tail(b),
                                    t \div Limb)

\* Python's a + b for non-negative ints
PyAdd(a, b) == [neg |-> FALSE, mag |-> MagAdd(a.mag, b.mag, 0)]

\* the limb at 0-based position k of a magnitude
LimbAt(m, k) == IF k + 1 <= Len(m) THEN m[k + 1] ELSE 0

\* int.to_bytes(n, "little") of a non-negative int that fits in n bytes
ToBytesLE(v, n) ==
    [i \in 1..n |-> LET l == LimbAt(v.mag, (i - 1) \div 2)
                    IN  IF (i - 1) % 2 = 0 THEN l % 256 ELSE l \div 256]

\* int.from_bytes(b, "little")
FromBytesLE(b) ==
    LET n == (Len(b) + 1) \div 2
        limbs == [k \in 1..n |->
                    b[2 * k - 1] + (IF 2 * k <= Len(b) THEN b[2 * k] * 256 ELSE 0)]
    IN  [neg |-> FALSE, mag |-> Canon(limbs)]

(***************************************************************************)
(* utils.ValueFormat                                                       *)
(***************************************************************************)
\* utils.py:29-33, the members
ValueFormat == {"UINT8", "UINT16", "UINT32", "FLOAT32", "FLOAT64"}

\* utils.py:35-38
num_bytes(f) == CASE f = "UINT8" -> 1
                  [] f = "UINT16" -> 2
                  [] f = "UINT32" -> 4
                  [] f = "FLOAT32" -> 4
                  [] f = "FLOAT64" -> 8

\* utils.py:62-64
is_uint(f) == f \in {"UINT8", "UINT16", "UINT32"}

\* utils.py:66-68
is_float(f) == f \in {"FLOAT32", "FLOAT64"}

\* utils.py:29-33 and 45-48, the label of a member
label(f) == CASE f = "UINT8" -> "uint8"
              [] f = "UINT16" -> "uint16"
              [] f = "UINT32" -> "uint32"
              [] f = "FLOAT32" -> "float32"
              [] f = "FLOAT64" -> "float64"

\* a failed coercion
NotAFormat == [err |-> "ValueError", val |-> "None"]

\* ValueFormat.coerce that knows the members only, not their labels
coerce_members_only(value) ==
    IF value \in ValueFormat THEN [err |-> "none", val |-> value]
    ELSE NotAFormat

\* utils.py:70-89, ValueFormat.coerce: a member is returned as it is, a label
\* as its member, anything else raises ValueError
coerce(value) ==
    IF value \in ValueFormat THEN [err |-> "none", val |-> value]
    ELSE IF \E member \in ValueFormat : value = label(member)
    THEN [err |-> "none",
          val |-> CHOOSE member \in ValueFormat : value = label(member)]
    ELSE NotAFormat

\* utils.MaxUInt, the unsigned members
MaxUInt == {"UINT8", "UINT16", "UINT32"}

\* utils.coerce_enum(value, enum_): the coercion into the members of enum_
coerce_enum(value, enum_) ==
    LET c == coerce(value)
    IN  IF c.err # "none" THEN c
        ELSE IF c.val \notin enum_ THEN NotAFormat
        ELSE c

\* utils.py:55-60, 2**(num_bytes * 8) - 1
max_value(f) ==
    [neg |-> FALSE,
     mag |-> CASE f = "UINT8" -> <<255>>
               [] f = "UINT16" -> <<65535>>
               [] f = "UINT32" -> <<65535, 65535>>]

\* int_to_bytearray with the bytes in big-endian order
int_to_bytearray_big_endian(value, format_) ==
    IF format_ \notin ValueFormat THEN Raise("ValueError")
    ELSE IF is_float(format_) THEN Raise("ValueError")
    ELSE IF ~(PyLeq(PyInt(0), value) /\ PyLeq(value, max_value(format_)))
    THEN Raise("ValueError")
    ELSE LET n == num_bytes(format_)
             le == ToBytesLE(value, n)
         IN  Ok([i \in 1..n |-> le[n + 1 - i]])

\* int_to_bytearray without the range check of utils.py:218-219, the value
\* cut to the width of the format
int_to_bytearray_wrapping(value, format_) ==
    IF format_ \notin ValueFormat THEN Raise("ValueError")
    ELSE IF is_float(format_) THEN Raise("ValueError")
    ELSE Ok(ToBytesLE(value, num_bytes(format_)))

\* utils.py:196-220
int_to_bytearray(value, format_) ==
    IF format_ \notin ValueFormat THEN Raise("ValueError")
    ELSE IF is_float(format_) THEN Raise("ValueError")
    ELSE IF ~(PyLeq(PyInt(0), value) /\ PyLeq(value, max_value(format_)))
    THEN Raise("ValueError")
    ELSE Ok(ToBytesLE(value, num_bytes(format_)))

\* utils.py:223-240
bytearray_to_int(value) == FromBytesLE(value)

(***************************************************************************)
(* IEEE-754 conversions done by struct.pack and struct.unpack              *)
(***************************************************************************)
\* the binary64 value as the 8 bytes of struct.pack('d', x), little-endian
PackD(x) ==
    << x.ml % 256,
       (x.ml \div 256) % 256,
       (x.ml \div 65536) % 256,
       (x.ml \div 16777216) + (x.mh % 8) * 32,
       (x.mh \div 8) % 256,
       (x.mh \div 2048) % 256,
       (x.mh \div 524288) + (x.e % 16) * 16,
       (x.e \div 16) + x.s * 128 >>

\* struct.unpack('d', b)
UnpackD(b) ==
    [s |-> b[8] \div 128,
     e |-> (b[8] % 128) * 16 + b[7] \div 16,
     mh |-> (b[7] % 16) * 524288 + b[6] * 2048 + b[5] * 8 + b[4] \div 32,
     ml |-> (b[4] % 32) * 16777216 + b[3] * 65536 + b[2] * 256 + b[1]]

\* the binary32 nearest to the binary64 x (round half to even), as the bits
\* [s, e8, m]; ovf is set when a finite x does not fit ("float too large to
\* pack with f format")
ToFloat32(x) ==
    LET e32 == x.e - 896
    IN  IF x.e = 2047 THEN [s |-> x.s, e8 |-> 255, m |-> x.mh, ovf |-> FALSE]
        ELSE IF x.e = 0 THEN [s |-> x.s, e8 |-> 0, m |-> 0, ovf |-> FALSE]
        ELSE IF e32 >= 255 THEN [s |-> x.s, e8 |-> 255, m |-> 0, ovf |-> TRUE]
        ELSE IF e32 >= 1
        THEN LET half == 268435456
                 up == x.ml > half \/ (x.ml = half /\ x.mh % 2 = 1)
                 bits == e32 * 8388608 + x.mh + (IF up THEN 1 ELSE 0)
             IN  [s |-> x.s, e8 |-> bits \div 8388608, m |-> bits % 8388608,
                  ovf |-> bits \div 8388608 >= 255]
        ELSE LET shift == 1 - e32
                 sig == 8388608 + x.mh
             IN  IF shift > 24 THEN [s |-> x.s, e8 |-> 0, m |-> 0, ovf |-> FALSE]
                 ELSE LET q == sig \div (2 ^ shift)
                          r == sig % (2 ^ shift)
                          halfr == 2 ^ (shift - 1)
                          up == \/ r > halfr
                                \/ (r = halfr /\ x.ml > 0)
                                \/ (r = halfr /\ x.ml = 0 /\ q % 2 = 1)
                          bits == q + (IF up THEN 1 ELSE 0)
                      IN  [s |-> x.s, e8 |-> bits \div 8388608,
                           m |-> bits % 8388608, ovf |-> FALSE]

\* position of the most significant set bit of m > 0
RECURSIVE TopBit(_)
TopBit(m) == IF m <= 1 THEN 0 ELSE 1 + TopBit(m \div 2)

\* the binary64 equal to the binary32 with bits [s, e8, m] (exact)
FromFloat32(y) ==
    IF y.e8 = 255 THEN [s |-> y.s, e |-> 2047, mh |-> y.m, ml |-> 0]
    ELSE IF y.e8 = 0 /\ y.m = 0 THEN [s |-> y.s, e |-> 0, mh |-> 0, ml |-> 0]
    ELSE IF y.e8 = 0
    THEN LET p == TopBit(y.m)
         IN  [s |-> y.s, e |-> p + 874,
              mh |-> (y.m - 2 ^ p) * (2 ^ (23 - p)), ml |-> 0]
    ELSE [s |-> y.s, e |-> y.e8 + 896, mh |-> y.m, ml |-> 0]

\* struct.pack('f', x) when it succeeds, little-endian
PackF(x) ==
    LET y == ToFloat32(x)
    IN  << y.m % 256, (y.m \div 256) % 256,
           (y.m \div 65536) + (y.e8 % 2) * 128,
           (y.e8 \div 2) + y.s * 128 >>

\* struct.unpack('f', b)
UnpackF(b) ==
    FromFloat32([s |-> b[4] \div 128,
                 e8 |-> (b[4] % 128) * 2 + b[3] \div 128,
                 m |-> (b[3] % 128) * 65536 + b[2] * 256 + b[1]])

\* float_to_bytearray without the category check of utils.py:262-263:
\* struct.pack is handed the format character None and raises TypeError
float_to_bytearray_unchecked(value, precision) ==
    IF precision \notin ValueFormat THEN Raise("ValueError")
    ELSE IF ~is_float(precision) THEN Raise("TypeError")
    ELSE IF precision = "FLOAT64" THEN Ok(PackD(value))
    ELSE IF ToFloat32(value).ovf THEN Raise("OverflowError")
    ELSE Ok(PackF(value))

\* utils.py:243-266
float_to_bytearray(value, precision) ==
    IF precision \notin ValueFormat THEN Raise("ValueError")
    ELSE IF ~is_float(precision) THEN Raise("ValueError")
    ELSE IF precision = "FLOAT64" THEN Ok(PackD(value))
    ELSE IF ToFloat32(value).ovf THEN Raise("OverflowError")
    ELSE Ok(PackF(value))

\* utils.py:269-295; struct.unpack raises struct.error when the number of
\* bytes is not the size of the format
bytearray_to_float(value, precision) ==
    IF precision \notin ValueFormat THEN Raise("ValueError")
    ELSE IF ~is_float(precision) THEN Raise("ValueError")
    ELSE IF Len(value) # num_bytes(precision) THEN Raise("struct.error")
    ELSE IF precision = "FLOAT64" THEN Ok(UnpackD(value))
    ELSE Ok(UnpackF(value))

(***************************************************************************)
(* Tagged Python values handed to the codecs: kind says which field holds  *)
(* the value (i an int, f a float, b a bytearray); "none" is None.         *)
(***************************************************************************)
ZeroFloat == [s |-> 0, e |-> 0, mh |-> 0, ml |-> 0]
NoneVal == [kind |-> "none", i |-> PyInt(0), f |-> ZeroFloat, b |-> <<>>]
IntVal(n) == [NoneVal EXCEPT !.kind = "int", !.i = n]
FloatVal(x) == [NoneVal EXCEPT !.kind = "float", !.f = x]
BytesVal(b) == [NoneVal EXCEPT !.kind = "bytes", !.b = b]

(***************************************************************************)
(* tlv.TLVPacket; self is the instance configuration                       *)
(*   [max_data_length, max_data_value, float_byte_size]                    *)
(***************************************************************************)
\* _validate_and_convert_type with the range test 0 <= type_ <= 256, the
\* byte then taken modulo 256
validate_and_convert_type_wide(type_) ==
    IF type_.kind = "int"
    THEN IF ~(PyLeq(PyInt(0), type_.i) /\ PyLeq(type_.i, PyInt(256)))
         THEN Raise("ValueError")
         ELSE Ok(ToBytesLE(type_.i, 1))
    ELSE IF type_.kind = "bytes"
    THEN IF Len(type_.b) # 1 THEN Raise("ValueError") ELSE Ok(type_.b)
    ELSE Raise("TypeError")

\* tlv.py:150-167
validate_and_convert_type(type_) ==
    IF type_.kind = "int"
    THEN IF ~(PyLeq(PyInt(0), type_.i) /\ PyLeq(type_.i, PyInt(255)))
         THEN Raise("ValueError")
         ELSE Ok(ToBytesLE(type_.i, 1))
    ELSE IF type_.kind = "bytes"
    THEN IF Len(type_.b) # 1 THEN Raise("ValueError") ELSE Ok(type_.b)
    ELSE Raise("TypeError")

\* tlv.py:169-184
validate_and_convert_value(self, value_) ==
    IF value_.kind = "int" THEN int_to_bytearray(value_.i, self.max_data_value)
    ELSE IF value_.kind = "float"
    THEN float_to_bytearray(value_.f, self.float_byte_size)
    ELSE IF value_.kind = "bytes" THEN Ok(value_.b)
    ELSE Raise("TypeError")

\* the record built with the length field cut to its width, without the
\* range check of int_to_bytearray
tlv_assemble_wrapped(self, t, v) ==
    IF t.err # "none" THEN t
    ELSE IF v.err # "none" THEN v
    ELSE Ok(t.val \o ToBytesLE(PyInt(Len(v.val)),
                               num_bytes(self.max_data_length)) \o v.val)

\* tlv.py:81-85, the record built from the converted fields
tlv_assemble(self, t, v) ==
    IF t.err # "none" THEN t
    ELSE IF v.err # "none" THEN v
    ELSE LET length_ == int_to_bytearray(PyInt(Len(v.val)),
                                         self.max_data_length)
         IN  IF length_.err # "none" THEN length_
             ELSE Ok(t.val \o length_.val \o v.val)

\* tlv.py:64-85
tlv_encode(self, type_, value_) ==
    tlv_assemble(self, validate_and_convert_type(type_),
                 validate_and_convert_value(self, value_))

\* a failed record decode
TlvRaise(e) == [err |-> e, type |-> 0, length |-> PyInt(0), value |-> NoneVal]

\* tlv.py:142-148
decode_float(self, b) ==
    IF Len(b) # num_bytes(self.float_byte_size) THEN Raise("ValueError")
    ELSE bytearray_to_float(b, self.float_byte_size)

\* TLVPacket.decode that rejects only the records shorter than declared
tlv_decode_truncated_only(self, packet, return_value_as) ==
    LET num_len_bytes == num_bytes(self.max_data_length)
    IN  IF Len(packet) < 1 + num_len_bytes THEN TlvRaise("ValueError")
        ELSE
          LET type_ == packet[1]
              length_ == FromBytesLE(SubSeq(packet, 2, num_len_bytes + 1))
              expected_total_len == PyAdd(PyInt(1 + num_len_bytes), length_)
              value_bytes == SubSeq(packet, num_len_bytes + 2, Len(packet))
          IN  IF ~PyLeq(expected_total_len, PyInt(Len(packet)))
              THEN TlvRaise("ValueError")
              ELSE IF return_value_as = "BYTEARRAY"
              THEN [err |-> "none", type |-> type_, length |-> length_,
                    value |-> BytesVal(value_bytes)]
              ELSE IF return_value_as = "INT"
              THEN [err |-> "none", type |-> type_, length |-> length_,
                    value |-> IntVal(bytearray_to_int(value_bytes))]
              ELSE IF return_value_as = "FLOAT"
              THEN LET f == decode_float(self, value_bytes)
                   IN  IF f.err # "none" THEN TlvRaise(f.err)
                       ELSE [err |-> "none", type |-> type_,
                             length |-> length_, value |-> FloatVal(f.val)]
              ELSE TlvRaise("ValueError")

\* tlv.py:87-140; return_value_as is "BYTEARRAY", "INT" or "FLOAT"
tlv_decode(self, packet, return_value_as) ==
    LET num_len_bytes == num_bytes(self.max_data_length)
    IN  IF Len(packet) < 1 + num_len_bytes THEN TlvRaise("ValueError")
        ELSE
          LET type_ == packet[1]
              length_ == FromBytesLE(SubSeq(packet, 2, num_len_bytes + 1))
              expected_total_len == PyAdd(PyInt(1 + num_len_bytes), length_)
              value_bytes == SubSeq(packet, num_len_bytes + 2, Len(packet))
          IN  IF PyInt(Len(packet)) # expected_total_len
              THEN TlvRaise("ValueError")
              ELSE IF return_value_as = "BYTEARRAY"
              THEN [err |-> "none", type |-> type_, length |-> length_,
                    value |-> BytesVal(value_bytes)]
              ELSE IF return_value_as = "INT"
              THEN [err |-> "none", type |-> type_, length |-> length_,
                    value |-> IntVal(bytearray_to_int(value_bytes))]
              ELSE IF return_value_as = "FLOAT"
              THEN LET f == decode_float(self, value_bytes)
                   IN  IF f.err # "none" THEN TlvRaise(f.err)
                       ELSE [err |-> "none", type |-> type_,
                             length |-> length_, value |-> FloatVal(f.val)]
              ELSE TlvRaise("ValueError")

(***************************************************************************)
(* The checksum calculator, crc.Calculator(crc.Crc16.XMODEM):              *)
(* width 16, polynomial 0x1021, initial value 0, no reflection, no final   *)
(* xor.                                                                    *)
(***************************************************************************)
\* bitwise exclusive or of two naturals
RECURSIVE Xor(_, _)
Xor(a, b) ==
    IF a = 0 THEN b
    ELSE IF b = 0 THEN a
    ELSE ((a + b) % 2) + 2 * Xor(a \div 2, b \div 2)

\* exclusive or of two 4-bit values a and b, tabulated at index 16 * a + b
XorNibble[i \in 0..255] == Xor(i \div 16, i % 16)

\* exclusive or of two bytes
XorByte(a, b) ==
    XorNibble[(a \div 16) * 16 + (b \div 16)] * 16
    + XorNibble[(a % 16) * 16 + (b % 16)]

\* x with bit k inverted
FlipBitOf(x, k) ==
    IF (x \div (2 ^ k)) % 2 = 1 THEN x - 2 ^ k ELSE x + 2 ^ k

\* the generator polynomial 0x1021
CrcPoly == 4129

\* one shift of the 16-bit register
CrcShift1(reg) ==
    IF reg >= 32768 THEN Xor((reg * 2) % 65536, CrcPoly) ELSE reg * 2

\* the register that eight shifts make of the byte i in the high half
CrcTable[i \in 0..255] ==
    CrcShift1(CrcShift1(CrcShift1(CrcShift1(
        CrcShift1(CrcShift1(CrcShift1(CrcShift1(i * 256))))))))

\* the register after one more byte: the byte is xor-ed into the high half,
\* eight shifts follow
CrcByte(reg, byte) ==
    LET t == CrcTable[XorByte(reg \div 256, byte)]
    IN  XorByte(reg % 256, t \div 256) * 256 + (t % 256)

\* the register after the bytes data[1..n]
CrcReg(data, n) ==
    LET reg[k \in 0..n] == IF k = 0 THEN 0 ELSE CrcByte(reg[k - 1], data[k])
    IN  reg[n]

\* Calculator.checksum(data)
checksum(data) == CrcReg(data, Len(data))

(***************************************************************************)
(* packet.SerialPacket; self is the instance configuration                 *)
(*   [max_data_length, max_data_value, float_byte_size, crc_format]        *)
(* of which the first three configure the TLVPacket it owns.               *)
(***************************************************************************)
\* Python's s[a:b] for 0 <= a, with b clamped to the length
Slice(s, a, b) == SubSeq(s, a + 1, IF b > Len(s) THEN Len(s) ELSE b)

\* Python's s[-n:] and s[:-n] for n > 0
LastN(s, n) == IF n >= Len(s) THEN s ELSE SubSeq(s, Len(s) - n + 1, Len(s))
DropLastN(s, n) == IF n >= Len(s) THEN <<>> ELSE SubSeq(s, 1, Len(s) - n)

\* the value conversion of the record encoder called with a value format:
\* unsigned integers little-endian at the format's width, floats as IEEE-754,
\* raw bytes unchanged, a value of the other category is a type error
value_to_bytearray(value_, format_) ==
    IF value_.kind = "bytes" THEN Ok(value_.b)
    ELSE IF format_ \notin ValueFormat THEN Raise("TypeError")
    ELSE IF value_.kind = "int"
    THEN IF is_uint(format_) THEN int_to_bytearray(value_.i, format_)
         ELSE Raise("TypeError")
    ELSE IF value_.kind = "float"
    THEN IF is_float(format_) THEN float_to_bytearray(value_.f, format_)
         ELSE Raise("TypeError")
    ELSE Raise("TypeError")

\* the value conversion of the decoder called with a value format: the byte
\* count must be the format's width
bytearray_to_value(value_, format_) ==
    IF Len(value_) # num_bytes(format_)
    THEN [err |-> "ValueError", val |-> NoneVal]
    ELSE IF is_uint(format_)
    THEN [err |-> "none", val |-> IntVal(bytearray_to_int(value_))]
    ELSE [err |-> "none",
          val |-> FloatVal(bytearray_to_float(value_, format_).val)]

\* packet.py:163, self._tlv_packet.encode(type_, value_, format_)
tlv_encode_format(self, type_, value_, format_) ==
    tlv_assemble(self, validate_and_convert_type(type_),
                 value_to_bytearray(value_, format_))

\* the address step guarded by the truth value of device_id, which drops 0
prepend_device_id_truthy(device_id, packet_) ==
    IF device_id.kind = "none" THEN Ok(packet_)
    ELSE IF device_id.kind # "int" THEN Raise("TypeError")
    ELSE IF device_id.i = PyInt(0) THEN Ok(packet_)
    ELSE IF ~(PyLeq(PyInt(0), device_id.i) /\ PyLeq(device_id.i, PyInt(255)))
    THEN Raise("ValueError")
    ELSE Ok(ToBytesLE(device_id.i, 1) \o packet_)

\* packet.py:164-165, bytearray([device_id]) + packet_
prepend_device_id(device_id, packet_) ==
    IF device_id.kind = "none" THEN Ok(packet_)
    ELSE IF device_id.kind # "int" THEN Raise("TypeError")
    ELSE IF ~(PyLeq(PyInt(0), device_id.i) /\ PyLeq(device_id.i, PyInt(255)))
    THEN Raise("ValueError")
    ELSE Ok(ToBytesLE(device_id.i, 1) \o packet_)

\* packet.py:167-170
append_checksum(self, packet_) ==
    LET cs == int_to_bytearray(PyInt(checksum(packet_)), self.crc_format)
    IN  IF cs.err # "none" THEN cs ELSE Ok(packet_ \o cs.val)

\* _encode with the checksum taken over the record before the address is
\* prepended
packet_encode_checksum_first(self, type_, value_, format_, device_id, cobs_encode) ==
    LET rec == tlv_encode_format(self, type_, value_, format_)
    IN  IF rec.err # "none" THEN rec
        ELSE LET full == append_checksum(self, rec.val)
             IN  IF full.err # "none" THEN full
                 ELSE LET withId == prepend_device_id(device_id, full.val)
                      IN  IF withId.err # "none" THEN withId
                          ELSE IF cobs_encode
                          THEN encode_bytearray(withId.val)
                          ELSE withId

\* _encode with the frame codec applied before the checksum is appended
packet_encode_frame_first(self, type_, value_, format_, device_id, cobs_encode) ==
    LET rec == tlv_encode_format(self, type_, value_, format_)
    IN  IF rec.err # "none" THEN rec
        ELSE LET withId == prepend_device_id(device_id, rec.val)
             IN  IF withId.err # "none" THEN withId
                 ELSE LET framed == IF cobs_encode
                                    THEN encode_bytearray(withId.val)
                                    ELSE withId
                      IN  IF framed.err # "none" THEN framed
                          ELSE append_checksum(self, framed.val)

\* packet.py:153-175
packet_encode(self, type_, value_, format_, device_id, cobs_encode) ==
    LET rec == tlv_encode_format(self, type_, value_, format_)
    IN  IF rec.err # "none" THEN rec
        ELSE LET withId == prepend_device_id(device_id, rec.val)
             IN  IF withId.err # "none" THEN withId
                 ELSE LET full == append_checksum(self, withId.val)
                      IN  IF full.err # "none" THEN full
                          ELSE IF cobs_encode THEN encode_bytearray(full.val)
                          ELSE full

\* packet.py:19-24, the dataclass SerialPacketStruct
SerialPacketStruct(device_id, type_, value_, format_) ==
    [device_id |-> device_id, type_ |-> type_, value_ |-> value_,
     format_ |-> format_]

\* the first argument of encode: a packet structure, or any other value
StructArg(s) == [form |-> "struct", arg |-> NoneVal, s |-> s]
PlainArg(v) ==
    [form |-> "plain", arg |-> v,
     s |-> SerialPacketStruct(NoneVal, NoneVal, NoneVal, "None")]

\* encode that takes the address of a packet structure from the device_id
\* argument
encode_struct_device_id_arg(self, data_, value_, format_, device_id, cobs_encode) ==
    IF data_.form = "struct"
    THEN packet_encode(self, data_.s.type_, data_.s.value_, data_.s.format_,
                       device_id, cobs_encode)
    ELSE IF data_.arg.kind = "int"
    THEN packet_encode(self, data_.arg, value_, format_, device_id,
                       cobs_encode)
    ELSE Raise("ValueError")

\* packet.py:55-81, SerialPacket.encode
encode(self, data_, value_, format_, device_id, cobs_encode) ==
    IF data_.form = "struct"
    THEN packet_encode(self, data_.s.type_, data_.s.value_, data_.s.format_,
                       data_.s.device_id, cobs_encode)
    ELSE IF data_.arg.kind = "int"
    THEN packet_encode(self, data_.arg, value_, format_, device_id,
                       cobs_encode)
    ELSE Raise("ValueError")

\* a failed packet decode; at names the stage that raised
PktRaise(e, stage) ==
    [err |-> e, at |-> stage, device_id |-> NoneVal, type_ |-> 0,
     value_ |-> NoneVal, format_ |-> "None"]

\* the stages after the checksum with a length check that lets bytes follow
\* the declared value
packet_parse_at_least(self, data_, format_, device_id) ==
    IF device_id /\ Len(data_) = 0 THEN PktRaise("IndexError", "address")
    ELSE
      LET id == IF device_id THEN IntVal(PyInt(data_[1])) ELSE NoneVal
          body == IF device_id THEN Tail(data_) ELSE data_
          num_len_bytes == num_bytes(self.max_data_length)
          length_field == bytearray_to_int(Slice(body, 1, 1 + num_len_bytes))
      IN  IF ~PyLeq(length_field, PyInt(Len(body) - 1 - num_len_bytes))
          THEN PktRaise("ValueError", "record")
          ELSE
            LET raw == Slice(body, 1 + num_len_bytes, Len(body))
                conv == bytearray_to_value(raw, format_)
            IN  IF format_ = "None"
                THEN [err |-> "none", at |-> "done", device_id |-> id,
                      type_ |-> body[1], value_ |-> BytesVal(raw),
                      format_ |-> "None"]
                ELSE IF conv.err # "none" THEN PktRaise(conv.err, "value")
                ELSE [err |-> "none", at |-> "done", device_id |-> id,
                      type_ |-> body[1], value_ |-> conv.val,
                      format_ |-> format_]

\* packet.py:129-151, the stages after the checksum has been verified
packet_parse(self, data_, format_, device_id) ==
    IF device_id /\ Len(data_) = 0 THEN PktRaise("IndexError", "address")
    ELSE
      LET id == IF device_id THEN IntVal(PyInt(data_[1])) ELSE NoneVal
          body == IF device_id THEN Tail(data_) ELSE data_
          num_len_bytes == num_bytes(self.max_data_length)
          length_field == bytearray_to_int(Slice(body, 1, 1 + num_len_bytes))
      IN  IF length_field # PyInt(Len(body) - 1 - num_len_bytes)
          THEN PktRaise("ValueError", "record")
          ELSE
            LET raw == Slice(body, 1 + num_len_bytes, Len(body))
                conv == bytearray_to_value(raw, format_)
            IN  IF format_ = "None"
                THEN [err |-> "none", at |-> "done", device_id |-> id,
                      type_ |-> body[1], value_ |-> BytesVal(raw),
                      format_ |-> "None"]
                ELSE IF conv.err # "none" THEN PktRaise(conv.err, "value")
                ELSE [err |-> "none", at |-> "done", device_id |-> id,
                      type_ |-> body[1], value_ |-> conv.val,
                      format_ |-> format_]

\* the checksum verification comparing the first checksum byte only
checksum_ok_first_byte(self, data_) ==
    LET n == num_bytes(self.crc_format)
        sent_checksum == LastN(data_, n)
        cs == int_to_bytearray(PyInt(checksum(DropLastN(data_, n))),
                               self.crc_format)
    IN  /\ cs.err = "none"
        /\ Len(sent_checksum) = n
        /\ cs.val[1] = sent_checksum[1]

\* packet.py:118-127, the checksum verification
checksum_ok(self, data_) ==
    LET n == num_bytes(self.crc_format)
        sent_checksum == LastN(data_, n)
        cs == int_to_bytearray(PyInt(checksum(DropLastN(data_, n))),
                               self.crc_format)
    IN  cs.err = "none" /\ cs.val = sent_checksum

\* decode without the checksum verification
packet_decode_unverified(self, data_, format_, device_id, cobs_encoded) ==
    LET unframed == IF cobs_encoded THEN decode_bytearray(data_) ELSE Ok(data_)
    IN  IF unframed.err # "none" THEN PktRaise(unframed.err, "frame")
        ELSE packet_parse(self, DropLastN(unframed.val,
                                          num_bytes(self.crc_format)),
                          format_, device_id)

\* decode that validates the record length before it verifies the checksum
packet_decode_length_first(self, data_, format_, device_id, cobs_encoded) ==
    LET unframed == IF cobs_encoded THEN decode_bytearray(data_) ELSE Ok(data_)
        parsed == packet_parse(self, DropLastN(unframed.val,
                                               num_bytes(self.crc_format)),
                               format_, device_id)
    IN  IF unframed.err # "none" THEN PktRaise(unframed.err, "frame")
        ELSE IF parsed.at = "record" THEN parsed
        ELSE IF ~checksum_ok(self, unframed.val)
        THEN PktRaise("ValueError", "checksum")
        ELSE parsed

\* packet.py:83-151; format_ is a ValueFormat member or "None"
packet_decode(self, data_, format_, device_id, cobs_encoded) ==
    LET unframed == IF cobs_encoded THEN decode_bytearray(data_) ELSE Ok(data_)
    IN  IF unframed.err # "none" THEN PktRaise(unframed.err, "frame")
        ELSE IF ~checksum_ok(self, unframed.val)
        THEN PktRaise("ValueError", "checksum")
        ELSE packet_parse(self, DropLastN(unframed.val,
                                          num_bytes(self.crc_format)),
                          format_, device_id)

(***************************************************************************)
(* The explored inputs.                                                    *)
(***************************************************************************)
\* byte arrays handed to the frame encoder: every short array over a few
\* byte values, and long arrays around the 254-byte block cap
DataBytes == {0, 1, 2, 255}
RunLengths == {MaxBlock - 2, MaxBlock - 1, MaxBlock,
               2 * (MaxBlock - 1), 2 * MaxBlock - 1}
LongInputs ==
    {pre \o NonZeroRun(n) \o suf :
        pre \in {<<>>, <<0>>, <<5>>}, n \in RunLengths,
        suf \in {<<>>, <<0>>, <<0, 7>>}}
    \cup {[i \in 1..256 |-> i - 1]}
CobsInputs == SeqsUpTo(DataBytes, MaxDataLen) \cup LongInputs

\* byte arrays put on the wire for the frame decoder
FrameBytes == {0, 1, 2, 3, 255}
LongFrames ==
    {<<m>> \o NonZeroRun(n) \o tail :
        m \in {MaxBlock - 1, MaxBlock}, n \in {MaxBlock - 2, MaxBlock - 1},
        tail \in {<<0>>, <<1, 0>>, <<2, 9, 0>>, <<1>>, <<0, 0>>, <<3, 9, 0>>}}
WireFrames == SeqsUpTo(FrameBytes, MaxFrameLen) \cup LongFrames

\* Python ints used as types, values and device ids
I(n) == IntVal(PyInt(n))
UInt32Max == IntVal([neg |-> FALSE, mag |-> <<65535, 65535>>])
UInt32Over == IntVal([neg |-> FALSE, mag |-> <<0, 0, 1>>])

\* Python floats: 0.0, -0.0, 1.0, -1.5, 3.14, the largest binary32, 1e300,
\* +inf, the smallest binary32 subnormal 2**-149, and 2**-151
Floats ==
    { [s |-> 0, e |-> 0, mh |-> 0, ml |-> 0],
      [s |-> 1, e |-> 0, mh |-> 0, ml |-> 0],
      [s |-> 0, e |-> 1023, mh |-> 0, ml |-> 0],
      [s |-> 1, e |-> 1023, mh |-> 4194304, ml |-> 0],
      [s |-> 0, e |-> 1024, mh |-> 4781506, ml |-> 300647711],
      [s |-> 0, e |-> 1150, mh |-> 8388607, ml |-> 0],
      [s |-> 0, e |-> 2019, mh |-> 4137444, ml |-> 134247836],
      [s |-> 0, e |-> 2047, mh |-> 0, ml |-> 0],
      [s |-> 0, e |-> 874, mh |-> 0, ml |-> 0],
      [s |-> 0, e |-> 872, mh |-> 0, ml |-> 0] }

\* the types handed to the record encoder
Types == {I(0), I(1), I(255), I(256), I(0 - 1), BytesVal(<<7>>),
          BytesVal(<<>>), BytesVal(<<1, 2>>), FloatVal(ZeroFloat), NoneVal}

\* the values handed to the record encoder
IntValues == {I(0), I(123), I(255), I(256), I(65535), I(65536),
              UInt32Max, UInt32Over, I(0 - 1)}
ByteValues == {BytesVal(<<>>), BytesVal(<<0>>), BytesVal(<<16, 0, 32>>),
               BytesVal(NonZeroRun(MaxBlock)), BytesVal(NonZeroRun(MaxBlock + 1))}
Values == IntValues \cup {FloatVal(x) : x \in Floats} \cup ByteValues
          \cup {NoneVal}

\* byte arrays put on the wire for the record decoder: every short array
\* over a few byte values, and records that carry 1.0 as a binary32 and as a
\* binary64 behind each width of the length field
RecordBytes == {0, 1, 2}
FloatRecords ==
    {<<7>> \o ToBytesLE(PyInt(Len(v)), n) \o v :
        n \in {1, 2, 4},
        v \in {<<0, 0, 128, 63>>, <<0, 0, 0, 0, 0, 0, 240, 63>>}}
WireRecords == SeqsUpTo(RecordBytes, MaxRecordLen) \cup FloatRecords

\* instance configurations: a TLVPacket of its own, and a SerialPacket, whose
\* TLVPacket is built with the length format only (tlv.py:31-34 defaults)
UIntFormats == {"UINT8", "UINT16", "UINT32"}
FloatFormats == {"FLOAT32", "FLOAT64"}
TlvConfigs ==
    [max_data_length : UIntFormats, max_data_value : UIntFormats,
     float_byte_size : FloatFormats, crc_format : {"UINT16"}]
PacketConfigs ==
    [max_data_length : UIntFormats, max_data_value : {"UINT8"},
     float_byte_size : {"FLOAT32"}, crc_format : {"UINT16", "UINT32"}]
DefaultConfig ==
    [max_data_length |-> "UINT8", max_data_value |-> "UINT8",
     float_byte_size |-> "FLOAT32", crc_format |-> "UINT16"]

\* the formats handed to the numeric conversions: the members, and a value
\* that is not a format
ConversionFormats == ValueFormat \cup {"None"}

\* the packet structures and the other first arguments handed to encode
StructTypes == {I(0), I(255), I(256), BytesVal(<<7>>), NoneVal}
StructDeviceIds == {NoneVal, I(0), I(20), I(256)}
StructValues ==
    { <<I(123), "UINT8">>, <<I(256), "UINT8">>,
      <<FloatVal([s |-> 1, e |-> 1023, mh |-> 4194304, ml |-> 0]), "FLOAT32">>,
      <<FloatVal(ZeroFloat), "UINT8">>, <<BytesVal(<<16, 0, 32>>), "None">>,
      <<NoneVal, "None">> }
PacketStructs ==
    {SerialPacketStruct(d, t, v[1], v[2]) :
        d \in StructDeviceIds, t \in StructTypes, v \in StructValues}
OtherFirstArgs == {NoneVal, BytesVal(<<7>>), FloatVal(ZeroFloat)}

\* packet.py:48-53 with tlv.py:31-38: SerialPacket(max_data_length) builds
\* its TLVPacket with that length format and the defaults for the rest
serial_packet_init(max_data_length) ==
    LET c == coerce_enum(max_data_length, MaxUInt)
    IN  [err |-> c.err,
         self |-> IF c.err = "none"
                  THEN [DefaultConfig EXCEPT !.max_data_length = c.val]
                  ELSE DefaultConfig]

\* the length formats handed to the constructor: members, labels, and the
\* values 255, 3.14 and None, which are no formats
ConstructorArgs ==
    ValueFormat \cup {label(f) : f \in ValueFormat} \cup {"255", "3.14", "None"}

\* the packets handed to the packet encoder
PacketTypes == {I(0), I(255)}
DeviceIds == {NoneVal, I(0), I(20), I(255), I(256)}
PacketValues ==
    { <<I(0), "UINT8">>, <<I(123), "UINT8">>, <<I(256), "UINT8">>,
      <<I(65535), "UINT16">>, <<UInt32Max, "UINT32">>,
      <<UInt32Over, "UINT32">>,
      <<FloatVal([s |-> 1, e |-> 1023, mh |-> 4194304, ml |-> 0]), "FLOAT32">>,
      <<FloatVal([s |-> 0, e |-> 1024, mh |-> 4781506, ml |-> 300647711]),
        "FLOAT32">>,
      <<FloatVal([s |-> 0, e |-> 1024, mh |-> 4781506, ml |-> 300647711]),
        "FLOAT64">>,
      <<FloatVal([s |-> 1, e |-> 0, mh |-> 0, ml |-> 0]), "FLOAT64">>,
      <<FloatVal(ZeroFloat), "UINT8">>, <<I(1), "FLOAT32">>,
      <<BytesVal(<<16, 0, 32>>), "None">>, <<BytesVal(<<>>), "None">> }

\* byte arrays put on the wire for the packet decoder: arbitrary short ones,
\* and bodies sealed with their checksum, bare or framed
BodyBytes == {0, 1, 20}
Sealed(self, body) ==
    body \o ToBytesLE(PyInt(checksum(body)), num_bytes(self.crc_format))
WirePackets(self) ==
    LET bodies == SeqsUpTo(BodyBytes, MaxBodyLen)
    IN  bodies \cup {Sealed(self, b) : b \in bodies}
        \cup {encode_bytearray(Sealed(self, b)).val : b \in bodies}

(***************************************************************************)
(* State.                                                                  *)
(***************************************************************************)
VARIABLES
    pc,      \* "idle", "sent" (bytes are on the wire), "failed" (the encoder
             \* or the constructor raised), "received" (the decoder has run),
             \* "constructed" (the constructor has returned), "returned"
             \* (an encode call whose packet is not sent has returned)
    layer,   \* the codec in use: "cobs", "tlv", "packet", or the numeric
             \* conversions "int" and "float" ("none" when idle)
    cfg,     \* the configuration of the codec instance
    req,     \* the arguments of the encode call
    enc,     \* the outcome of the encode call
    wire,    \* the bytes in flight
    origin,  \* "encoder", "flipped" (one bit altered in flight) or "injected"
    dec      \* the arguments and the outcome of the decode call

vars == <<pc, layer, cfg, req, enc, wire, origin, dec>>

NoReq == [data |-> <<>>, type_ |-> NoneVal, value_ |-> NoneVal,
          format_ |-> "None", device_id |-> NoneVal, cobs_encode |-> FALSE,
          form |-> "plain"]
NoArgs == [return_value_as |-> "BYTEARRAY", format_ |-> "None",
           device_id |-> FALSE, cobs_encoded |-> FALSE]
NoDec == [err |-> "none", at |-> "none", data |-> <<>>, type_ |-> 0,
          length |-> PyInt(0), value_ |-> NoneVal, device_id |-> NoneVal,
          format_ |-> "None", args |-> NoArgs]

Init ==
    /\ pc = "idle"
    /\ layer = "none"
    /\ cfg = DefaultConfig
    /\ req = NoReq
    /\ enc = Ok(<<>>)
    /\ wire = <<>>
    /\ origin = "none"
    /\ dec = NoDec

\* the encoder has returned or raised
Sent(l, r, e) ==
    /\ layer' = l
    /\ req' = r
    /\ enc' = e
    /\ wire' = e.val
    /\ pc' = IF e.err = "none" THEN "sent" ELSE "failed"
    /\ origin' = "encoder"
    /\ UNCHANGED <<cfg, dec>>

\* bytes that no encoder of this model produced arrive
Injected(l, w) ==
    /\ layer' = l
    /\ wire' = w
    /\ pc' = "sent"
    /\ origin' = "injected"
    /\ UNCHANGED <<cfg, req, enc, dec>>

(***************************************************************************)
(* Actions.                                                                *)
(***************************************************************************)
\* a record codec or packet assembler instance is constructed with some
\* configuration (the frame codec is a pair of functions, it has none)
Configure ==
    /\ pc = "idle"
    /\ \E c \in TlvConfigs \cup PacketConfigs : cfg' = c
    /\ UNCHANGED <<pc, layer, req, enc, wire, origin, dec>>

\* cobs.encode_bytearray(data)
CobsEncode ==
    /\ pc = "idle"
    /\ cfg = DefaultConfig
    /\ \E data \in CobsInputs :
          Sent("cobs", [NoReq EXCEPT !.data = data], encode_bytearray(data))

\* arbitrary bytes reach the frame decoder
InjectFrame ==
    /\ pc = "idle"
    /\ cfg = DefaultConfig
    /\ \E w \in WireFrames : Injected("cobs", w)

\* cobs.decode_bytearray(wire)
CobsDecode ==
    /\ pc = "sent"
    /\ layer = "cobs"
    /\ LET r == decode_bytearray(wire)
       IN  dec' = [NoDec EXCEPT !.err = r.err, !.data = r.val,
                                !.at = IF r.err = "none" THEN "done"
                                       ELSE "frame"]
    /\ pc' = "received"
    /\ UNCHANGED <<layer, cfg, req, enc, wire, origin>>

\* TLVPacket.encode(type_, value_)
TlvEncode ==
    /\ pc = "idle"
    /\ cfg \in TlvConfigs
    /\ \E type_ \in Types, value_ \in Values :
          Sent("tlv", [NoReq EXCEPT !.type_ = type_, !.value_ = value_],
               tlv_encode(cfg, type_, value_))

\* arbitrary bytes reach the record decoder
InjectRecord ==
    /\ pc = "idle"
    /\ cfg \in TlvConfigs
    /\ cfg.max_data_value = "UINT8"
    /\ \E w \in WireRecords : Injected("tlv", w)

\* TLVPacket.decode(wire, return_value_as)
TlvDecode ==
    /\ pc = "sent"
    /\ layer = "tlv"
    /\ \E return_value_as \in {"BYTEARRAY", "INT", "FLOAT"} :
          LET r == tlv_decode(cfg, wire, return_value_as)
          IN  dec' = [NoDec EXCEPT !.err = r.err, !.type_ = r.type,
                                   !.length = r.length, !.value_ = r.value,
                                   !.at = IF r.err = "none" THEN "done"
                                          ELSE "record",
                                   !.args.return_value_as = return_value_as]
    /\ pc' = "received"
    /\ UNCHANGED <<layer, cfg, req, enc, wire, origin>>

\* SerialPacket.encode(type_, value_, format_, device_id, cobs_encode)
PacketEncode ==
    /\ pc = "idle"
    /\ cfg \in PacketConfigs
    /\ \E type_ \in PacketTypes, v \in PacketValues, device_id \in DeviceIds,
          cobs_encode \in BOOLEAN :
          Sent("packet",
               [NoReq EXCEPT !.type_ = type_, !.value_ = v[1],
                             !.format_ = v[2], !.device_id = device_id,
                             !.cobs_encode = cobs_encode],
               packet_encode(cfg, type_, v[1], v[2], device_id, cobs_encode))

\* arbitrary bytes reach the packet decoder
InjectPacket ==
    /\ pc = "idle"
    /\ cfg \in PacketConfigs
    /\ \E w \in WirePackets(cfg) : Injected("packet", w)

\* one bit of an unframed packet is inverted in flight
FlipBit ==
    /\ pc = "sent"
    /\ layer = "packet"
    /\ origin = "encoder"
    /\ ~req.cobs_encode
    /\ \E i \in 1..Len(wire), k \in 0..7 :
          wire' = [wire EXCEPT ![i] = FlipBitOf(wire[i], k)]
    /\ origin' = "flipped"
    /\ UNCHANGED <<pc, layer, cfg, req, enc, dec>>

\* SerialPacket.decode(wire, format_, device_id, cobs_encoded); the receiver of
\* a packet altered in flight is set up for the packet that was sent
PacketDecode ==
    /\ pc = "sent"
    /\ layer = "packet"
    /\ \E format_ \in ValueFormat \cup {"None"}, device_id \in BOOLEAN,
          cobs_encoded \in BOOLEAN :
          /\ origin = "flipped" =>
                /\ format_ \in {req.format_, "None"}
                /\ device_id = (req.device_id.kind # "none")
                /\ cobs_encoded = req.cobs_encode
          /\ LET r == packet_decode(cfg, wire, format_, device_id,
                                    cobs_encoded)
             IN  dec' = [NoDec EXCEPT !.err = r.err, !.at = r.at,
                                      !.type_ = r.type_, !.value_ = r.value_,
                                      !.device_id = r.device_id,
                                      !.format_ = r.format_,
                                      !.args.format_ = format_,
                                      !.args.device_id = device_id,
                                      !.args.cobs_encoded = cobs_encoded]
    /\ pc' = "received"
    /\ UNCHANGED <<layer, cfg, req, enc, wire, origin>>

\* utils.int_to_bytearray(value, format_)
IntToBytearray ==
    /\ pc = "idle"
    /\ cfg = DefaultConfig
    /\ \E value \in IntValues, format_ \in ConversionFormats :
          Sent("int", [NoReq EXCEPT !.value_ = value, !.format_ = format_],
               int_to_bytearray(value.i, format_))

\* utils.bytearray_to_int(wire)
BytearrayToInt ==
    /\ pc = "sent"
    /\ layer = "int"
    /\ dec' = [NoDec EXCEPT !.value_ = IntVal(bytearray_to_int(wire)),
                            !.at = "done"]
    /\ pc' = "received"
    /\ UNCHANGED <<layer, cfg, req, enc, wire, origin>>

\* utils.float_to_bytearray(value, precision)
FloatToBytearray ==
    /\ pc = "idle"
    /\ cfg = DefaultConfig
    /\ \E value \in Floats, precision \in ConversionFormats :
          Sent("float",
               [NoReq EXCEPT !.value_ = FloatVal(value), !.format_ = precision],
               float_to_bytearray(value, precision))

\* utils.bytearray_to_float(wire, precision)
BytearrayToFloat ==
    /\ pc = "sent"
    /\ layer = "float"
    /\ \E precision \in FloatFormats :
          LET r == bytearray_to_float(wire, precision)
          IN  dec' = [NoDec EXCEPT !.err = r.err,
                                   !.value_ = IF r.err = "none"
                                              THEN FloatVal(r.val)
                                              ELSE NoneVal,
                                   !.at = IF r.err = "none" THEN "done"
                                          ELSE "value",
                                   !.args.format_ = precision]
    /\ pc' = "received"
    /\ UNCHANGED <<layer, cfg, req, enc, wire, origin>>

\* SerialPacket(max_data_length=...): the instance replaces the one in use,
\* or the constructor raises and the one in use stays
SerialPacketInit ==
    /\ pc = "idle"
    /\ \E max_data_length \in ConstructorArgs :
          LET r == serial_packet_init(max_data_length)
          IN  /\ req' = [NoReq EXCEPT !.format_ = max_data_length]
              /\ enc' = IF r.err = "none" THEN Ok(<<>>) ELSE Raise(r.err)
              /\ cfg' = IF r.err = "none" THEN r.self ELSE cfg
              /\ pc' = IF r.err = "none" THEN "constructed" ELSE "failed"
    /\ layer' = "constructor"
    /\ UNCHANGED <<wire, origin, dec>>

\* SerialPacket.encode(s, cobs_encode=c) with a packet structure s; the
\* returned packet is kept by the caller
EncodeStruct ==
    /\ pc = "idle"
    /\ cfg \in PacketConfigs
    /\ \E s \in PacketStructs, cobs_encode \in BOOLEAN :
          LET e == encode(cfg, StructArg(s), NoneVal, "None", NoneVal,
                          cobs_encode)
          IN  /\ req' = [NoReq EXCEPT !.form = "struct", !.type_ = s.type_,
                                      !.value_ = s.value_,
                                      !.format_ = s.format_,
                                      !.device_id = s.device_id,
                                      !.cobs_encode = cobs_encode]
              /\ enc' = e
              /\ pc' = IF e.err = "none" THEN "returned" ELSE "failed"
    /\ layer' = "encode"
    /\ UNCHANGED <<cfg, wire, origin, dec>>

\* SerialPacket.encode(data_, value_, format_, device_id, cobs_encode) with a
\* first argument that is neither an int nor a packet structure
EncodeOther ==
    /\ pc = "idle"
    /\ cfg \in PacketConfigs
    /\ \E data_ \in OtherFirstArgs, v \in StructValues,
          device_id \in StructDeviceIds, cobs_encode \in BOOLEAN :
          LET e == encode(cfg, PlainArg(data_), v[1], v[2], device_id,
                          cobs_encode)
          IN  /\ req' = [NoReq EXCEPT !.type_ = data_, !.value_ = v[1],
                                      !.format_ = v[2],
                                      !.device_id = device_id,
                                      !.cobs_encode = cobs_encode]
              /\ enc' = e
              /\ pc' = IF e.err = "none" THEN "returned" ELSE "failed"
    /\ layer' = "encode"
    /\ UNCHANGED <<cfg, wire, origin, dec>>

\* the caller has consumed the result or the exception
Reset ==
    /\ pc \in {"failed", "received", "constructed", "returned"}
    /\ pc' = "idle"
    /\ layer' = "none"
    /\ req' = NoReq
    /\ enc' = Ok(<<>>)
    /\ wire' = <<>>
    /\ origin' = "none"
    /\ dec' = NoDec
    /\ UNCHANGED cfg

Next ==
    \/ Configure
    \/ CobsEncode
    \/ InjectFrame
    \/ CobsDecode
    \/ TlvEncode
    \/ InjectRecord
    \/ TlvDecode
    \/ PacketEncode
    \/ InjectPacket
    \/ FlipBit
    \/ PacketDecode
    \/ IntToBytearray
    \/ BytearrayToInt
    \/ FloatToBytearray
    \/ BytearrayToFloat
    \/ SerialPacketInit
    \/ EncodeStruct
    \/ EncodeOther
    \/ Reset

Spec == Init /\ [][Next]_vars

(***************************************************************************)
(* Properties of the frame codec.                                          *)
(***************************************************************************)
\* C1: COBS round trip.  Every byte array of length >= 1 is encoded without
\* error, and when the frame the encoder returned is decoded, the decoder
\* succeeds and returns exactly the array that was encoded.
C1_CobsRoundTrip ==
    (layer = "cobs" /\ origin = "encoder" /\ Len(req.data) >= 1) =>
        /\ enc.err = "none"
        /\ pc = "received" => (dec.err = "none" /\ dec.data = req.data)

\* C1 witness: an input of 254 non-zero bytes followed by a zero has made the
\* round trip
C1_Witness ==
    /\ layer = "cobs" /\ origin = "encoder" /\ pc = "received"
    /\ Len(req.data) = MaxBlock
    /\ req.data[MaxBlock] = 0
    /\ \A i \in 1..(MaxBlock - 1) : req.data[i] # 0
    /\ dec.data = req.data

\* C2: zero-free frame.  The frame returned for a non-empty input ends in
\* 0x00 and every byte before the last is in 1..255.
C2_ZeroFreeFrame ==
    (layer = "cobs" /\ origin = "encoder" /\ enc.err = "none") =>
        /\ Len(enc.val) >= 2
        /\ enc.val[Len(enc.val)] = 0
        /\ \A i \in 1..(Len(enc.val) - 1) : enc.val[i] \in 1..255

\* C2 witness: a frame was returned for an input that holds zero bytes and a
\* run of more than 254 non-zero bytes
C2_Witness ==
    /\ layer = "cobs" /\ origin = "encoder" /\ enc.err = "none"
    /\ Len(req.data) > MaxBlock + 1
    /\ req.data[1] = 0
    /\ req.data[Len(req.data) - 1] = 0
    /\ Len(enc.val) > Len(req.data) + 2

\* the walk over the markers of frame f from the marker at 0-based index i
\* meets a marker m with i + m >= Len(f)
RECURSIVE MarkerPastEnd(_, _)
MarkerPastEnd(f, i) ==
    IF i >= Len(f) - 1 THEN FALSE
    ELSE IF i + f[i + 1] >= Len(f) THEN TRUE
    ELSE MarkerPastEnd(f, i + (IF f[i + 1] > 1 THEN f[i + 1] ELSE 1))

\* the input shapes the frame decoder must reject
Malformed(f) ==
    \/ Len(f) < 2
    \/ f[Len(f)] # 0
    \/ CountOf(f, 0) > 1
    \/ MarkerPastEnd(f, 0)

\* C5: malformed frame rejection.  The decoder fails with a ValueError and
\* returns no bytes for every input with fewer than two bytes, or not ending
\* in 0x00, or holding more than one 0x00, or with a marker at index i of
\* value m such that i + m >= len(frame).
C5_MalformedFrameRejected ==
    (layer = "cobs" /\ pc = "received" /\ Malformed(wire)) =>
        (dec.err = "ValueError" /\ dec.data = <<>>)

\* C5 witness: a frame of good shape whose second marker points past the
\* delimiter was rejected
C5_Witness ==
    /\ layer = "cobs" /\ pc = "received" /\ origin = "injected"
    /\ wire = <<2, 1, 2, 0>>
    /\ dec.err = "ValueError"


(***************************************************************************)
(* Properties of the record codec.                                         *)
(***************************************************************************)
\* x is a value of the binary32 format: a zero, an infinity, a normal
\* binary32 or a binary32 subnormal
RepresentableF32(x) ==
    \/ x.e = 0 /\ x.mh = 0 /\ x.ml = 0
    \/ x.e = 2047 /\ x.mh = 0 /\ x.ml = 0
    \/ x.e \in 897..1150 /\ x.ml = 0
    \/ x.e \in 874..896 /\ x.ml = 0 /\ x.mh % (2 ^ (897 - x.e)) = 0

\* the value v is representable in the format f
Representable(v, f) ==
    \/ /\ v.kind = "int"
       /\ f \in UIntFormats
       /\ ~v.i.neg
       /\ Len(v.i.mag) <= num_bytes(f) \div 2
          \/ (f = "UINT8" /\ Len(v.i.mag) = 1 /\ v.i.mag[1] <= 255)
    \/ /\ v.kind = "float"
       /\ f = "FLOAT64" \/ (f = "FLOAT32" /\ RepresentableF32(v.f))

\* the format the record encoder of the instance self gives to the value v
TlvFormatOf(self, v) ==
    IF v.kind = "int" THEN self.max_data_value
    ELSE IF v.kind = "float" THEN self.float_byte_size
    ELSE "None"

\* the return type that asks the record decoder for a value of v's kind
ReturnTypeOf(v) ==
    IF v.kind = "int" THEN "INT"
    ELSE IF v.kind = "float" THEN "FLOAT"
    ELSE "BYTEARRAY"

HeaderOk(self, w) ==
    LET n == num_bytes(self.max_data_length)
        k == Len(w) - 1 - n
    IN  /\ Len(w) >= 1 + n
        /\ \A i \in 1..n : w[i + 1] = (k \div (256 ^ (i - 1))) % 256

\* C8 as stated: TLV decode acceptance condition.  Decode succeeds exactly
\* for the inputs with at least 1 + N bytes whose length field equals
\* len(input) - 1 - N, any other input fails with a ValueError, and an input
\* of 1 + N bytes with length field 0 is accepted with an empty value.
C8_DecodeAcceptance ==
    (layer = "tlv" /\ pc = "received") =>
        /\ dec.err = "none" <=> HeaderOk(cfg, wire)
        /\ dec.err # "none" => dec.err = "ValueError"
        /\ (HeaderOk(cfg, wire)
            /\ Len(wire) = 1 + num_bytes(cfg.max_data_length)) =>
              dec.value_ \in {BytesVal(<<>>), I(0)}

\* C8 as amended: the acceptance condition is the whole condition when the
\* value is returned as raw bytes or as an integer; when it is returned as a
\* float the number of value bytes must also be the width of the float
\* format, so that a record with an empty value is then rejected.
C8_DecodeAcceptanceAmended ==
    (layer = "tlv" /\ pc = "received") =>
        LET n == num_bytes(cfg.max_data_length)
            asFloat == dec.args.return_value_as = "FLOAT"
            widthOk == Len(wire) - 1 - n = num_bytes(cfg.float_byte_size)
        IN  /\ dec.err = "none" <=>
                  (HeaderOk(cfg, wire) /\ (asFloat => widthOk))
            /\ dec.err # "none" => dec.err = "ValueError"
            /\ (HeaderOk(cfg, wire) /\ Len(wire) = 1 + n /\ ~asFloat) =>
                  dec.value_ \in {BytesVal(<<>>), I(0)}

\* a record of four value bytes is accepted as a binary32
C8_Witness ==
    /\ layer = "tlv"
    /\ pc = "received"
    /\ origin = "injected"
    /\ cfg.max_data_length = "UINT8"
    /\ cfg.float_byte_size = "FLOAT32"
    /\ wire = <<7, 4, 0, 0, 128, 63>>
    /\ dec.args.return_value_as = "FLOAT"
    /\ dec.err = "none"
    /\ dec.type_ = 7
    /\ dec.value_ = FloatVal([s |-> 0, e |-> 1023, mh |-> 0, ml |-> 0])

(***************************************************************************)
(* Properties of the packet assembler.                                     *)
(***************************************************************************)
\* the address d is absent or an int in 0..255
ValidAddress(d) ==
    \/ d.kind = "none"
    \/ d.kind = "int" /\ ~d.i.neg /\ Len(d.i.mag) <= 1
                      /\ LimbAt(d.i.mag, 0) <= 255

\* the address byte, if an address was supplied
AddressBytes(d) ==
    IF d.kind = "none" THEN <<>> ELSE <<LimbAt(d.i.mag, 0)>>

\* the checksum c as the trailing field of a packet of the instance self
ChecksumField(self, c) ==
    LET m == num_bytes(self.crc_format)
    IN  [i \in 1..m |-> (c \div (256 ^ (i - 1))) % 256]

\* address byte if present ++ record r ++ checksum of the two
Layout(self, d, r) ==
    LET covered == AddressBytes(d) \o r
    IN  covered \o ChecksumField(self, checksum(covered))

\* C3: packet round trip.  For a type in 0..255, an address that is absent
\* or in 0..255, a value representable in its value format, with and without
\* frame-wrapping: encode succeeds, and decoding its result with the same
\* value format, has_address = (an address was supplied) and is_framed =
\* (wrapping was requested) succeeds and returns the original address (None
\* when absent), type, value and format.
C3_PacketRoundTrip ==
    (/\ layer = "packet"
     /\ origin = "encoder"
     /\ req.type_.kind = "int"
     /\ PyLeq(PyInt(0), req.type_.i) /\ PyLeq(req.type_.i, PyInt(255))
     /\ ValidAddress(req.device_id)
     /\ Representable(req.value_, req.format_)) =>
        /\ enc.err = "none"
        /\ (/\ pc = "received"
            /\ dec.args.format_ = req.format_
            /\ dec.args.device_id = (req.device_id.kind # "none")
            /\ dec.args.cobs_encoded = req.cobs_encode) =>
              /\ dec.err = "none"
              /\ dec.device_id = req.device_id
              /\ PyInt(dec.type_) = req.type_.i
              /\ dec.value_ = req.value_
              /\ dec.format_ = req.format_

\* a framed packet with address 0 and a binary32 value comes back
C3_Witness ==
    /\ layer = "packet"
    /\ origin = "encoder"
    /\ pc = "received"
    /\ req.device_id = I(0)
    /\ req.type_ = I(255)
    /\ req.format_ = "FLOAT32"
    /\ req.cobs_encode
    /\ dec.args.format_ = "FLOAT32"
    /\ dec.args.device_id
    /\ dec.args.cobs_encoded
    /\ dec.err = "none"
    /\ dec.device_id = I(0)
    /\ dec.value_ = FloatVal([s |-> 1, e |-> 1023, mh |-> 4194304, ml |-> 0])

\* the bytes the checksum verification works on, once any frame is removed
Unframed ==
    IF dec.args.cobs_encoded THEN decode_bytearray(wire) ELSE Ok(wire)

\* C6: checksum verification.  Decode fails with the checksum ValueError for
\* every input whose trailing M bytes differ from the little-endian M-byte
\* serialization of the checksum of the bytes before them; in particular it
\* fails when a bit of the checksum field of an encoded packet was changed.
C6_ChecksumVerification ==
    (layer = "packet" /\ pc = "received") =>
        LET m == num_bytes(cfg.crc_format)
            p == Unframed
        IN  /\ (/\ p.err = "none"
                /\ LastN(p.val, m) #
                     ChecksumField(cfg, checksum(DropLastN(p.val, m)))) =>
                  (dec.err = "ValueError" /\ dec.at = "checksum")
            /\ (origin = "flipped" /\ wire # enc.val
                /\ DropLastN(wire, m) = DropLastN(enc.val, m)) =>
                  (dec.err = "ValueError" /\ dec.at = "checksum")

\* the high checksum byte of an addressed packet lost its lowest bit
C6_Witness ==
    /\ layer = "packet"
    /\ pc = "received"
    /\ origin = "flipped"
    /\ cfg = DefaultConfig
    /\ enc.val = <<20, 0, 1, 123, 155, 45>>
    /\ wire = <<20, 0, 1, 123, 155, 44>>
    /\ dec.err = "ValueError"
    /\ dec.at = "checksum"

\* C7: checksum sensitivity.  For every encoded unframed packet, inverting
\* one bit of the bytes before the checksum field (address, type, length
\* field or value) makes decode fail with the checksum ValueError.  The
\* collision the claim sets aside does not arise: no single inverted bit
\* leaves the checksum of the instance unchanged.
C7_ChecksumSensitivity ==
    (/\ layer = "packet"
     /\ pc = "received"
     /\ origin = "flipped"
     /\ wire # enc.val
     /\ LastN(wire, num_bytes(cfg.crc_format))
          = LastN(enc.val, num_bytes(cfg.crc_format))) =>
        (dec.err = "ValueError" /\ dec.at = "checksum")

\* the address 20 of a packet became 21 in flight
C7_Witness ==
    /\ layer = "packet"
    /\ pc = "received"
    /\ origin = "flipped"
    /\ cfg = DefaultConfig
    /\ req.device_id = I(20)
    /\ enc.val = <<20, 0, 1, 123, 155, 45>>
    /\ wire = <<21, 0, 1, 123, 155, 45>>
    /\ dec.args.device_id
    /\ dec.err = "ValueError"
    /\ dec.at = "checksum"

\* C9: packet wire layout and checksum invariant.  Every unframed packet
\* that encode returns is the address byte (only if an address was supplied),
\* then the TLV record, then the checksum of exactly those bytes serialized
\* little-endian at the configured checksum width.
C9_WireLayout ==
    (/\ layer = "packet"
     /\ origin = "encoder"
     /\ ~req.cobs_encode
     /\ enc.err = "none") =>
        LET rec == tlv_encode_format(cfg, req.type_, req.value_, req.format_)
        IN  /\ rec.err = "none"
            /\ ValidAddress(req.device_id)
            /\ enc.val = Layout(cfg, req.device_id, rec.val)

\* address 20, type 0, the 1-byte value 123 and the 2-byte checksum 0x2D9B
C9_Witness ==
    /\ layer = "packet"
    /\ origin = "encoder"
    /\ pc = "sent"
    /\ cfg = DefaultConfig
    /\ ~req.cobs_encode
    /\ req.device_id = I(20)
    /\ req.type_ = I(0)
    /\ req.value_ = I(123)
    /\ enc.val = <<20, 0, 1, 123, 155, 45>>

\* C10: frame wrapping composes the layers.  For every encodable packet,
\* encode with frame-wrapping returns the frame codec's encoding of the
\* packet that encode returns without wrapping, address, record and checksum
\* all inside the frame, so that 0x00 is its last byte and no other.
C10_FrameWrapping ==
    LET rec == tlv_encode_format(cfg, req.type_, req.value_, req.format_)
    IN  (/\ layer = "packet"
         /\ origin = "encoder"
         /\ req.cobs_encode
         /\ rec.err = "none"
         /\ ValidAddress(req.device_id)) =>
            /\ enc.err = "none"
            /\ enc.val =
                 encode_bytearray(Layout(cfg, req.device_id, rec.val)).val
            /\ CountOf(enc.val, 0) = 1
            /\ enc.val[Len(enc.val)] = 0

\* the packet with address 0 and value 0 has zeros in the address, the type,
\* and the value, and none inside its frame
C10_Witness ==
    /\ layer = "packet"
    /\ origin = "encoder"
    /\ pc = "sent"
    /\ cfg = DefaultConfig
    /\ req.cobs_encode
    /\ req.device_id = I(0)
    /\ req.type_ = I(0)
    /\ req.value_ = I(0)
    /\ enc.val = <<1, 1, 2, 1, 3, 49, 51, 0>>

(***************************************************************************)
(* Further properties of the frame codec.                                  *)
(***************************************************************************)
\* C11: single-zero frame.  Encoding the one-byte input [0x00] returns
\* exactly [0x01, 0x00], and decoding the frame [0x01, 0x00] returns exactly
\* [0x00].
C11_SingleZeroFrame ==
    /\ (layer = "cobs" /\ origin = "encoder" /\ req.data = <<0>>) =>
          enc = Ok(<<1, 0>>)
    /\ (layer = "cobs" /\ pc = "received" /\ wire = <<1, 0>>) =>
          (dec.err = "none" /\ dec.data = <<0>>)

\* the single zero byte has gone through the encoder and the decoder
C11_Witness ==
    /\ layer = "cobs"
    /\ origin = "encoder"
    /\ pc = "received"
    /\ req.data = <<0>>
    /\ wire = <<1, 0>>
    /\ dec.data = <<0>>

\* the position of the first zero of b after position i, Len(b) + 1 if none
NextZero(b, i) ==
    LET Z == {j \in (i + 1)..Len(b) : b[j] = 0}
    IN  IF Z = {} THEN Len(b) + 1 ELSE CHOOSE j \in Z : \A k \in Z : j <= k

\* the position of the last zero of b before position i, 0 if none
LastZero(b, i) ==
    LET Z == {j \in 1..(i - 1) : b[j] = 0}
    IN  IF Z = {} THEN 0 ELSE CHOOSE j \in Z : \A k \in Z : j >= k

\* the segments of b between its zeros: a segment starts at position 1 and
\* after every zero; the length of the segment that starts after position i
SegmentLen(b, i) == NextZero(b, i) - i - 1

\* every maximal run of non-zero bytes of b has at most n bytes
RunsAtMost(b, n) ==
    \A i \in 0..Len(b) : (i = 0 \/ b[i] = 0) => SegmentLen(b, i) <= n

\* [len(s_0)+1] ++ s_0 ++ [len(s_1)+1] ++ s_1 ++ ... ++ [len(s_k)+1] ++ s_k
\* ++ [0x00]: every zero of b, and the position before b, holds the length
\* of the segment that follows plus one
Stuffed(b) ==
    [p \in 1..(Len(b) + 2) |->
        IF p = Len(b) + 2 THEN 0
        ELSE IF p = 1 THEN SegmentLen(b, 0) + 1
        ELSE IF b[p - 1] = 0 THEN SegmentLen(b, p - 1) + 1
        ELSE b[p - 1]]

\* C12: zero replacement by distance markers.  For every non-empty input
\* other than [0x00] whose runs of non-zero bytes have at most 253 bytes, the
\* frame is the segments between the zeros, each preceded by its length plus
\* one, and the terminator; an input of n <= 253 non-zero bytes encodes to
\* [n+1] ++ b ++ [0x00].
C12_DistanceMarkers ==
    (/\ layer = "cobs"
     /\ origin = "encoder"
     /\ Len(req.data) >= 1
     /\ req.data # <<0>>
     /\ RunsAtMost(req.data, MaxBlock - 2)) =>
        /\ enc = Ok(Stuffed(req.data))
        /\ CountOf(req.data, 0) = 0 =>
              enc.val = <<Len(req.data) + 1>> \o req.data \o <<0>>

\* a run of 253 non-zero bytes between two zeros
C12_Witness ==
    /\ layer = "cobs"
    /\ origin = "encoder"
    /\ pc = "sent"
    /\ req.data = <<0>> \o NonZeroRun(MaxBlock - 2) \o <<0, 7>>
    /\ Len(enc.val) = MaxBlock + 3
    /\ enc.val[1] = 1
    /\ enc.val[2] = MaxBlock - 1
    /\ enc.val[MaxBlock + 1] = 2
    /\ enc.val[MaxBlock + 2] = 7

\* C14: empty input is not encodable.  encode_bytearray on the empty byte
\* sequence fails with a ValueError and returns no frame.
C14_EmptyInputRejected ==
    (layer = "cobs" /\ origin = "encoder" /\ req.data = <<>>) =>
        /\ enc = Raise("ValueError")
        /\ pc = "failed"
        /\ wire = <<>>

\* the encoder was called with no bytes
C14_Witness ==
    /\ layer = "cobs"
    /\ origin = "encoder"
    /\ pc = "failed"
    /\ req.data = <<>>
    /\ enc.err = "ValueError"

\* the positions of the markers of the frame f, from the marker at p on
RECURSIVE Markers(_, _)
Markers(f, p) ==
    IF p >= Len(f) \/ f[p] = 0 THEN {}
    ELSE {p} \cup Markers(f, p + f[p])

\* before the input byte b[i] is handled, 254 non-zero bytes have been emitted
\* since the last marker: the bytes since the last zero are a positive
\* multiple of 254
CapAt(b, i) ==
    LET r == i - 1 - LastZero(b, i)
    IN  r > 0 /\ r % (MaxBlock - 1) = 0

\* the input positions before which a block is closed by the cap
Caps(b) == {i \in 1..Len(b) : CapAt(b, i)}

\* the frame position of the marker opened before the input byte b[i]: one
\* leading marker, and one more byte for every block closed by the cap
FreshMarkerPos(b, i) == i + Cardinality({j \in Caps(b) : j <= i})

\* C13: 254-byte block cap.  Whenever 254 non-zero bytes have been emitted
\* since the last marker and an input byte remains, that marker is 255, the
\* 254 bytes follow it, and a fresh marker starts a new block before the next
\* byte.  On decode no zero is reinserted after a block whose marker is 255
\* nor after the final block: for every accepted frame other than
\* [0x01, 0x00] the zeros of the output are as many as the markers that are
\* neither 255 nor the last marker.
C13_BlockCap ==
    /\ (layer = "cobs" /\ origin = "encoder" /\ enc.err = "none") =>
          \A i \in Caps(req.data) :
              LET q == FreshMarkerPos(req.data, i)
              IN  /\ (q - MaxBlock) \in Markers(enc.val, 1)
                  /\ enc.val[q - MaxBlock] = MaxBlock
                  /\ \A k \in 1..(MaxBlock - 1) :
                        enc.val[q - MaxBlock + k] = req.data[i - MaxBlock + k]
                  /\ q \in Markers(enc.val, 1)
    /\ (layer = "cobs" /\ pc = "received" /\ dec.err = "none"
        /\ wire # <<1, 0>>) =>
          CountOf(dec.data, 0) =
              Cardinality({p \in Markers(wire, 1) :
                              wire[p] # MaxBlock /\ p + wire[p] < Len(wire)})

\* 509 non-zero bytes, a zero and one more byte: two blocks are closed by the
\* cap, and the decoder reinserts the one zero
C13_Witness ==
    /\ layer = "cobs"
    /\ origin = "encoder"
    /\ pc = "received"
    /\ req.data = NonZeroRun(2 * MaxBlock - 1) \o <<0, 7>>
    /\ Caps(req.data) = {MaxBlock, 2 * MaxBlock - 1}
    /\ enc.val[1] = MaxBlock
    /\ enc.val[MaxBlock + 1] = MaxBlock
    /\ enc.val[2 * MaxBlock + 1] = 2
    /\ dec.err = "none"
    /\ CountOf(dec.data, 0) = 1

(***************************************************************************)
(* Further properties of the record codec.                                 *)
(***************************************************************************)
\* the value v is an int in 0..255
ByteInt(v) ==
    /\ v.kind = "int"
    /\ ~v.i.neg
    /\ Len(v.i.mag) <= 1
    /\ LimbAt(v.i.mag, 0) <= 255

\* a count of k value bytes can be written in a length field of n bytes (a
\* field of 4 bytes holds every count a sequence of the model can have)
FitsLength(k, n) == n = 4 \/ k < 256 ^ n

\* the value v can be serialized by the record encoder of the instance self
\* and its byte count fits the length field
Encodable(self, v) ==
    \/ Representable(v, TlvFormatOf(self, v))
    \/ /\ v.kind = "bytes"
       /\ FitsLength(Len(v.b), num_bytes(self.max_data_length))

\* C15: TLV type validation.  Encode accepts a type that is an int in 0..255,
\* emitted as that byte, or a bytearray of exactly one byte, emitted
\* unchanged; an int outside 0..255 or a bytearray of another length fails
\* with a ValueError, any other kind of type with a TypeError, and in every
\* failing case no record is returned.
C15_TypeValidation ==
    (layer = "tlv" /\ origin = "encoder") =>
        /\ (ByteInt(req.type_) /\ Encodable(cfg, req.value_)) =>
              (enc.err = "none" /\ enc.val[1] = LimbAt(req.type_.i.mag, 0))
        /\ (req.type_.kind = "bytes" /\ Len(req.type_.b) = 1
            /\ Encodable(cfg, req.value_)) =>
              (enc.err = "none" /\ enc.val[1] = req.type_.b[1])
        /\ (req.type_.kind = "int" /\ ~ByteInt(req.type_)) =>
              (enc = Raise("ValueError") /\ pc = "failed" /\ wire = <<>>)
        /\ (req.type_.kind = "bytes" /\ Len(req.type_.b) # 1) =>
              (enc = Raise("ValueError") /\ pc = "failed" /\ wire = <<>>)
        /\ req.type_.kind \notin {"int", "bytes"} =>
              (enc = Raise("TypeError") /\ pc = "failed" /\ wire = <<>>)

\* the type 256 is refused although the value is fine
C15_Witness ==
    /\ layer = "tlv"
    /\ origin = "encoder"
    /\ pc = "failed"
    /\ req.type_ = I(256)
    /\ req.value_ = I(123)
    /\ enc = Raise("ValueError")

C18_UIntSerialization ==
    (layer = "int" /\ origin = "encoder" /\ req.format_ \in UIntFormats) =>
        LET w == num_bytes(req.format_)
            v == req.value_.i
        IN  IF Representable(req.value_, req.format_)
            THEN /\ enc.err = "none"
                 /\ Len(enc.val) = w
                 /\ \A i \in 1..w : enc.val[i] \in 0..255
                 \* two digits make one base-65536 limb of v
                 /\ \A k \in 1..((w + 1) \div 2) :
                       LimbAt(v.mag, k - 1) =
                           enc.val[2 * k - 1]
                           + (IF 2 * k <= w THEN 256 * enc.val[2 * k] ELSE 0)
                 /\ Len(v.mag) <= 1 =>
                       \A i \in 0..(w - 1) :
                           enc.val[i + 1] =
                               (LimbAt(v.mag, 0) \div (256 ^ i)) % 256
                 /\ pc = "received" =>
                       (dec.err = "none" /\ dec.value_ = req.value_)
            ELSE enc = Raise("ValueError") /\ pc = "failed" /\ wire = <<>>

\* 65536 as a UINT32 is 00 00 01 00 and comes back
C18_Witness ==
    /\ layer = "int"
    /\ origin = "encoder"
    /\ pc = "received"
    /\ req.value_ = I(65536)
    /\ req.format_ = "UINT32"
    /\ wire = <<0, 0, 1, 0>>
    /\ dec.value_ = I(65536)

PlainFormResult ==
    encode(cfg, PlainArg(req.type_), req.value_, req.format_, req.device_id,
           req.cobs_encode)

\* C20 as stated: the two encode call forms agree.  For every packet
\* structure s and frame-wrapping flag c, encode(s, cobs_encode=c) returns
\* the same bytes, or fails the same way, as encode(s.type_, s.value_,
\* s.format_, device_id=s.device_id, cobs_encode=c); a first argument that is
\* neither an int nor a packet structure fails with a ValueError.
C20_CallFormsAgree ==
    layer = "encode" =>
        /\ req.form = "struct" => enc = PlainFormResult
        /\ (req.form = "plain" /\ req.type_.kind # "int") =>
              (enc = Raise("ValueError") /\ pc = "failed")

\* C20 as amended: the two call forms agree for every packet structure whose
\* type_ is an int; a first argument that is neither an int nor a packet
\* structure fails with a ValueError.
C20_CallFormsAgreeForIntType ==
    layer = "encode" =>
        /\ (req.form = "struct" /\ req.type_.kind = "int") =>
              enc = PlainFormResult
        /\ (req.form = "plain" /\ req.type_.kind # "int") =>
              (enc = Raise("ValueError") /\ pc = "failed")

\* the structure with address 20, type 0 and the UINT8 value 123 gave the
\* framed packet of the call with separate arguments
C20_Witness ==
    /\ layer = "encode"
    /\ pc = "returned"
    /\ cfg = DefaultConfig
    /\ req.form = "struct"
    /\ req.device_id = I(20)
    /\ req.type_ = I(0)
    /\ req.value_ = I(123)
    /\ req.format_ = "UINT8"
    /\ req.cobs_encode
    /\ enc.val = <<2, 20, 5, 1, 123, 155, 45, 0>>

(***************************************************************************)
(* Failure behaviour of the packet decoder.                                *)
(***************************************************************************)
\* the decode call returned a structure with every field it was asked for
CompleteResult ==
    /\ dec.err = "none"
    /\ dec.at = "done"
    /\ dec.value_.kind # "none"
    /\ dec.args.device_id <=> (dec.device_id.kind = "int")
    /\ dec.format_ = dec.args.format_

\* C21: packet decode fails closed.  For every byte array and every
\* combination of value format, address flag and framing flag, decode either
\* returns a complete result or raises a ValueError; it raises no other
\* exception and returns no partial result, also for inputs shorter than the
\* checksum and for the bare checksum of the empty array with the address
\* flag set.
C21_DecodeFailsClosed ==
    (layer = "packet" /\ pc = "received") =>
        \/ CompleteResult
        \/ (dec.err = "ValueError" /\ dec.value_.kind = "none")

(***************************************************************************)
(* Effects of the calls on the objects of the caller.                      *)
(*                                                                         *)
(* A call is given the caller's bytearray (the object "arg") and, for the  *)
(* record codec and the packet assembler, the instance ("self").  Every    *)
(* other object a call writes to ("encoded", "decoded", "retval") is       *)
(* created by the call itself.  A heap holds the two objects of the        *)
(* caller; a store into an object the call created leaves it as it is.     *)
(***************************************************************************)
\* longest byte array handed over by the caller in EffectSpec
MaxBufferLen == 3

Heap(buffer, self) == [arg |-> buffer, self |-> self]

\* an in-place write (x[i] = b, x.append(b), x.attr = v) to the object target
Store(heap, target, bytes) ==
    IF target = "arg" THEN [heap EXCEPT !.arg = bytes] ELSE heap

\* cobs.py:61-90: the writes of lines 70, 71, 80, 81, 85, 89 and 90 go to
\* encoded, the bytearray created at line 61; data is read only
encode_bytearray_effects(heap) ==
    LET r == encode_bytearray(heap.arg)
    IN  IF r.err = "none" THEN Store(heap, "encoded", r.val) ELSE heap

\* cobs.py:146-183: the writes of lines 173 and 181 go to decoded, the
\* bytearray created at line 161 (line 157 returns a new bytearray); data
\* is read only
decode_bytearray_effects(heap) ==
    LET r == decode_bytearray(heap.arg)
    IN  IF r.err = "none" THEN Store(heap, "decoded", r.val) ELSE heap

\* tlv.py:81-85 with 150-184: _validate_and_convert_value returns the
\* caller's bytearray itself (line 182), and line 85 builds the record as a
\* new bytearray from type_ + length_ + value_; nothing is written in place
\* and no attribute of self is assigned
tlv_encode_effects(heap, type_) ==
    LET r == tlv_encode(heap.self, type_, BytesVal(heap.arg))
    IN  IF r.err = "none" THEN Store(heap, "packet", r.val) ELSE heap

\* tlv.py:111-140: packet is read and sliced (lines 120, 121, 130), every
\* slice is a new object
tlv_decode_effects(heap, return_value_as) ==
    LET r == tlv_decode(heap.self, heap.arg, return_value_as)
    IN  IF r.err = "none" /\ r.value.kind = "bytes"
        THEN Store(heap, "value_bytes", r.value.b) ELSE heap

\* packet.py:153-175: packet_ is the record, a new object, rebound at lines
\* 165 and 170 to new concatenations; cobs.encode is handed packet_, not the
\* caller's value
packet_encode_effects(heap, type_, device_id, cobs_encode) ==
    LET r == packet_encode(heap.self, type_, BytesVal(heap.arg), "None",
                           device_id, cobs_encode)
    IN  IF r.err = "none" THEN Store(heap, "packet_", r.val) ELSE heap

\* SerialPacket.decode stripping the checksum from its argument in place
\* (del data_[-num_bytes:])
packet_decode_effects_in_place(heap, format_, device_id, cobs_encoded) ==
    LET h1 == IF cobs_encoded THEN decode_bytearray_effects(heap) ELSE heap
        unframed == IF cobs_encoded THEN decode_bytearray(heap.arg)
                    ELSE Ok(heap.arg)
    IN  IF unframed.err # "none" THEN h1
        ELSE Store(h1, IF cobs_encoded THEN "decoded" ELSE "arg",
                   DropLastN(unframed.val, num_bytes(heap.self.crc_format)))

\* packet.py:111-151: cobs.decode is handed the caller's bytearray (line
\* 116) and data_ is rebound to its result; lines 120, 121, 133 and 144 take
\* slices, which are new objects; lines 132-149 assign to the fields of
\* retval, created at line 130
packet_decode_effects(heap, format_, device_id, cobs_encoded) ==
    LET h1 == IF cobs_encoded THEN decode_bytearray_effects(heap) ELSE heap
        r == packet_decode(heap.self, heap.arg, format_, device_id,
                           cobs_encoded)
    IN  IF r.err = "none" /\ r.value_.kind = "bytes"
        THEN Store(h1, "retval", r.value_.b) ELSE h1

\* the byte arrays a caller hands to each call
EffectBytes == {0, 1, 2}
EffectBuffers(l, d, self) ==
    IF l = "packet" /\ d = "decode"
    THEN {w \in WirePackets(self) : Len(w) <= MaxBufferLen + 4}
    ELSE SeqsUpTo(EffectBytes, MaxBufferLen)

(***************************************************************************)
(* EffectSpec: a caller hands one of its bytearrays to one call of a       *)
(* codec; pc is "idle", "called" (the arguments are bound, the body has    *)
(* not run) or "done"; wire is the caller's bytearray, cfg the instance,   *)
(* origin the direction of the call.                                       *)
(***************************************************************************)
EffectInit ==
    /\ pc = "idle"
    /\ layer = "none"
    /\ cfg = DefaultConfig
    /\ req = NoReq
    /\ enc = Ok(<<>>)
    /\ wire = <<>>
    /\ origin = "none"
    /\ dec = NoDec

\* the caller picks an instance, a codec, a direction and a bytearray
Borrow ==
    /\ pc = "idle"
    /\ \E l \in {"cobs", "tlv", "packet"}, d \in {"encode", "decode"},
          c \in TlvConfigs \cup PacketConfigs :
          /\ l = "cobs" => c = DefaultConfig
          /\ l = "tlv" => (c \in TlvConfigs /\ c.max_data_value = "UINT8"
                           /\ c.float_byte_size = "FLOAT32")
          /\ l = "packet" => c \in PacketConfigs
          /\ layer' = l
          /\ origin' = d
          /\ cfg' = c
          /\ \E b \in EffectBuffers(l, d, c) : wire' = b
    /\ pc' = "called"
    /\ UNCHANGED <<req, enc, dec>>

\* the body of the call has run: h is the heap it leaves
Returned(h) ==
    /\ wire' = h.arg
    /\ cfg' = h.self
    /\ pc' = "done"
    /\ UNCHANGED <<layer, origin>>

\* cobs.encode_bytearray(wire)
FrameEncodeCall ==
    /\ pc = "called" /\ layer = "cobs" /\ origin = "encode"
    /\ enc' = encode_bytearray(wire)
    /\ Returned(encode_bytearray_effects(Heap(wire, cfg)))
    /\ UNCHANGED <<req, dec>>

\* cobs.decode_bytearray(wire)
FrameDecodeCall ==
    /\ pc = "called" /\ layer = "cobs" /\ origin = "decode"
    /\ LET r == decode_bytearray(wire)
       IN  dec' = [NoDec EXCEPT !.err = r.err, !.data = r.val]
    /\ Returned(decode_bytearray_effects(Heap(wire, cfg)))
    /\ UNCHANGED <<req, enc>>

\* TLVPacket.encode(type_, wire)
RecordEncodeCall ==
    /\ pc = "called" /\ layer = "tlv" /\ origin = "encode"
    /\ \E type_ \in {I(7), I(256), BytesVal(<<7>>), NoneVal} :
          /\ req' = [NoReq EXCEPT !.type_ = type_, !.value_ = BytesVal(wire)]
          /\ enc' = tlv_encode(cfg, type_, BytesVal(wire))
          /\ Returned(tlv_encode_effects(Heap(wire, cfg), type_))
    /\ UNCHANGED dec

\* TLVPacket.decode(wire, return_value_as)
RecordDecodeCall ==
    /\ pc = "called" /\ layer = "tlv" /\ origin = "decode"
    /\ \E return_value_as \in {"BYTEARRAY", "INT", "FLOAT"} :
          /\ LET r == tlv_decode(cfg, wire, return_value_as)
             IN  dec' = [NoDec EXCEPT !.err = r.err, !.type_ = r.type,
                                      !.length = r.length, !.value_ = r.value,
                                      !.args.return_value_as = return_value_as]
          /\ Returned(tlv_decode_effects(Heap(wire, cfg), return_value_as))
    /\ UNCHANGED <<req, enc>>

\* SerialPacket.encode(type_, wire, None, device_id, cobs_encode)
PacketEncodeCall ==
    /\ pc = "called" /\ layer = "packet" /\ origin = "encode"
    /\ \E type_ \in {I(7), I(256)}, device_id \in {NoneVal, I(20), I(256)},
          cobs_encode \in BOOLEAN :
          /\ req' = [NoReq EXCEPT !.type_ = type_, !.value_ = BytesVal(wire),
                                  !.device_id = device_id,
                                  !.cobs_encode = cobs_encode]
          /\ enc' = packet_encode(cfg, type_, BytesVal(wire), "None",
                                  device_id, cobs_encode)
          /\ Returned(packet_encode_effects(Heap(wire, cfg), type_, device_id,
                                            cobs_encode))
    /\ UNCHANGED dec

\* SerialPacket.decode(wire, format_, device_id, cobs_encoded)
PacketDecodeCall ==
    /\ pc = "called" /\ layer = "packet" /\ origin = "decode"
    /\ \E format_ \in {"None", "UINT8", "FLOAT32"}, device_id \in BOOLEAN,
          cobs_encoded \in BOOLEAN :
          /\ LET r == packet_decode(cfg, wire, format_, device_id,
                                    cobs_encoded)
             IN  dec' = [NoDec EXCEPT !.err = r.err, !.at = r.at,
                                      !.type_ = r.type_, !.value_ = r.value_,
                                      !.device_id = r.device_id,
                                      !.format_ = r.format_,
                                      !.args.format_ = format_,
                                      !.args.device_id = device_id,
                                      !.args.cobs_encoded = cobs_encoded]
          /\ Returned(packet_decode_effects(Heap(wire, cfg), format_,
                                            device_id, cobs_encoded))
    /\ UNCHANGED <<req, enc>>

\* the caller has its bytearray back
Release ==
    /\ pc = "done"
    /\ pc' = "idle"
    /\ layer' = "none"
    /\ req' = NoReq
    /\ enc' = Ok(<<>>)
    /\ wire' = <<>>
    /\ origin' = "none"
    /\ dec' = NoDec
    /\ UNCHANGED cfg

EffectNext ==
    \/ Borrow
    \/ FrameEncodeCall
    \/ FrameDecodeCall
    \/ RecordEncodeCall
    \/ RecordDecodeCall
    \/ PacketEncodeCall
    \/ PacketDecodeCall
    \/ Release

EffectSpec == EffectInit /\ [][EffectNext]_vars

ChecksumMatches ==
    LET m == num_bytes(cfg.crc_format)
    IN  /\ Unframed.err = "none"
        /\ LastN(Unframed.val, m) =
             ChecksumField(cfg, checksum(DropLastN(Unframed.val, m)))

\* the bytes left for the record once checksum and address are removed
RecordPart ==
    LET covered == DropLastN(Unframed.val, num_bytes(cfg.crc_format))
    IN  IF dec.args.device_id /\ Len(covered) > 0 THEN Tail(covered)
        ELSE covered

\* C24: decode stage ordering.  Packet decode runs unframe, verify checksum,
\* take address, parse record, in this order, and a stage runs only if every
\* earlier one succeeded: a framed input that is no valid frame raises the
\* frame error whatever its checksum bytes are; an input whose checksum does
\* not match raises the checksum failure whether or not its record length is
\* consistent; the record length error is raised only for inputs whose
\* checksum matched.
C24_StageOrdering ==
    (layer = "packet" /\ pc = "received") =>
        /\ (dec.args.cobs_encoded /\ Malformed(wire)) =>
              (dec.err = "ValueError" /\ dec.at = "frame")
        /\ (Unframed.err = "none" /\ ~ChecksumMatches) =>
              (dec.err = "ValueError" /\ dec.at = "checksum")
        /\ dec.at = "record" => (dec.err = "ValueError" /\ ChecksumMatches)
        /\ dec.at \in {"address", "value", "done"} => ChecksumMatches
        /\ dec.at \in {"value", "done"} => HeaderOk(cfg, RecordPart)

\* an input with a wrong checksum and a record part of inconsistent length
\* failed at the checksum
C24_Witness ==
    /\ layer = "packet"
    /\ pc = "received"
    /\ origin = "injected"
    /\ cfg = DefaultConfig
    /\ wire = <<1, 1, 1>>
    /\ ~dec.args.cobs_encoded
    /\ ~dec.args.device_id
    /\ ~HeaderOk(cfg, RecordPart)
    /\ dec.err = "ValueError"
    /\ dec.at = "checksum"

(***************************************************************************)
(* Further properties of the frame codec.                                  *)
(***************************************************************************)
\* f is a sequence of blocks, each a marker m in 1..255 followed by m - 1
\* non-zero bytes, that ends exactly at the one zero byte of f, its last
WellFormedFrame(f) ==
    /\ Len(f) >= 2
    /\ f[Len(f)] = 0
    /\ \A i \in 1..(Len(f) - 1) : f[i] \in 1..MaxBlock
    /\ \E p \in Markers(f, 1) : p + f[p] = Len(f)

\* C25: encoder output is a well-formed frame.  Every frame returned by
\* encode_bytearray parses from index 0 as blocks of a marker m in 1..255 and
\* m - 1 non-zero bytes that tile the frame up to the single final 0x00 (a
\* marker of 255 is followed by 254 data bytes), and is therefore accepted by
\* decode_bytearray.
C25_WellFormedOutput ==
    (layer = "cobs" /\ origin = "encoder" /\ enc.err = "none") =>
        /\ WellFormedFrame(enc.val)
        /\ \A p \in Markers(enc.val, 1) :
              enc.val[p] = MaxBlock => p + MaxBlock <= Len(enc.val)
        /\ pc = "received" => dec.err = "none"

\* the frame of 254 non-zero bytes is one full block and the delimiter, and
\* the decoder accepted it
C25_Witness ==
    /\ layer = "cobs"
    /\ origin = "encoder"
    /\ pc = "received"
    /\ req.data = NonZeroRun(MaxBlock - 1)
    /\ enc.val = <<MaxBlock>> \o NonZeroRun(MaxBlock - 1) \o <<0>>
    /\ Markers(enc.val, 1) = {1}
    /\ dec.err = "none"

\* what TLVPacket.decode of the instance's record codec makes of the bytes
\* left for the record
RecordCodecResult == tlv_decode(cfg, RecordPart, "BYTEARRAY")

\* C26: the record parsing of the packet decoder agrees with the record
\* codec.  For every byte array r left after the checksum and the address
\* are removed and every width of the length field, the inline length check
\* of packet decode accepts r exactly when TLVPacket.decode accepts r, and
\* then both yield the same type byte and the same value bytes.
C26_InlineParseAgrees ==
    (/\ layer = "packet"
     /\ pc = "received"
     /\ ChecksumMatches
     /\ dec.at # "address") =>
        /\ (dec.at \in {"value", "done"}) <=> (RecordCodecResult.err = "none")
        /\ dec.at = "record" <=> (RecordCodecResult.err = "ValueError")
        /\ dec.at = "done" => dec.type_ = RecordCodecResult.type
        /\ (dec.at = "done" /\ dec.args.format_ = "None") =>
              dec.value_ = RecordCodecResult.value

\* the record 20, 1, 1 behind a matching checksum was accepted by the packet
\* decoder and by the record codec, with type 20 and the value byte 1
C26_Witness ==
    /\ layer = "packet"
    /\ pc = "received"
    /\ cfg.max_data_length = "UINT8"
    /\ ChecksumMatches
    /\ ~dec.args.device_id
    /\ dec.args.format_ = "None"
    /\ RecordPart = <<20, 1, 1>>
    /\ dec.at = "done"
    /\ dec.type_ = 20
    /\ dec.value_ = BytesVal(<<1>>)
    /\ RecordCodecResult.err = "none"

(***************************************************************************)
(* DecodeLoopSpec: one call of cobs.decode_bytearray, one step per         *)
(* iteration of its while loop.  wire is the argument data; pc is "idle",  *)
(* "loop" (at the loop head of cobs.py:162), "returned" or "raised"; dec   *)
(* holds the locals of the call: idx and decoded, the number of loop       *)
(* iterations started, the highest index of data read by the loop, and the *)
(* exception raised.                                                       *)
(***************************************************************************)
NoLocals ==
    [idx |-> 0, decoded |-> <<>>, iterations |-> 0, last_read |-> 0 - 1,
     err |-> "none"]

\* one iteration without the marker check of cobs.py:167-168
DecodeIterationUnchecked(data, l) ==
    LET bytes_until_delim == data[l.idx + 1]
        n == IF bytes_until_delim - 1 > 0 THEN bytes_until_delim - 1 ELSE 0
        top == IF l.idx + 1 + n > Len(data) THEN Len(data) ELSE l.idx + 1 + n
        copied == l.decoded \o SubSeq(data, l.idx + 2, top)
        idx2 == l.idx + 1 + n
    IN  [idx |-> idx2,
         decoded |-> IF bytes_until_delim # MaxBlock /\ idx2 < Len(data) - 1
                     THEN Append(copied, 0) ELSE copied,
         iterations |-> l.iterations + 1,
         last_read |-> IF l.idx + n > l.last_read THEN l.idx + n
                       ELSE l.last_read,
         err |-> "none"]

\* cobs.py:163-181, one iteration of the while loop from the locals l: the
\* marker is read at idx (line 164), the data bytes at idx + 1 .. idx + m - 1
\* (lines 171-174)
DecodeIteration(data, l) ==
    LET bytes_until_delim == data[l.idx + 1]
    IN  IF bytes_until_delim + l.idx >= Len(data)
        THEN [l EXCEPT !.err = "ValueError",
                       !.iterations = l.iterations + 1,
                       !.last_read = IF l.idx > l.last_read THEN l.idx
                                     ELSE l.last_read]
        ELSE
          LET n == IF bytes_until_delim - 1 > 0
                   THEN bytes_until_delim - 1 ELSE 0
              copied == l.decoded \o SubSeq(data, l.idx + 2, l.idx + 1 + n)
              idx2 == l.idx + 1 + n
              overhead_byte == bytes_until_delim = MaxBlock
              data_left_to_decode == idx2 < Len(data) - 1
          IN  [idx |-> idx2,
               decoded |-> IF ~overhead_byte /\ data_left_to_decode
                           THEN Append(copied, 0) ELSE copied,
               iterations |-> l.iterations + 1,
               last_read |-> IF l.idx + n > l.last_read THEN l.idx + n
                             ELSE l.last_read,
               err |-> "none"]

DecodeLoopInit ==
    /\ pc = "idle"
    /\ layer = "cobs"
    /\ cfg = DefaultConfig
    /\ req = NoReq
    /\ enc = Ok(<<>>)
    /\ wire = <<>>
    /\ origin = "none"
    /\ dec = NoLocals

\* cobs.py:146-161: the call is entered, the shape checks and the special
\* case run, and the loop variables are initialised
DecodeEnter ==
    /\ pc = "idle"
    /\ \E data \in WireFrames :
          /\ wire' = data
          /\ IF Len(data) < 2 THEN
                pc' = "raised" /\ dec' = [NoLocals EXCEPT !.err = "ValueError"]
             ELSE IF data[Len(data)] # 0 THEN
                pc' = "raised" /\ dec' = [NoLocals EXCEPT !.err = "ValueError"]
             ELSE IF CountOf(data, 0) > 1 THEN
                pc' = "raised" /\ dec' = [NoLocals EXCEPT !.err = "ValueError"]
             ELSE IF Len(data) = 2 /\ data[1] = 1 THEN
                pc' = "returned" /\ dec' = [NoLocals EXCEPT !.decoded = <<0>>]
             ELSE
                pc' = "loop" /\ dec' = NoLocals
    /\ origin' = "injected"
    /\ UNCHANGED <<layer, cfg, req, enc>>

\* cobs.py:162-181: the loop condition holds and one iteration runs
DecodeIterate ==
    /\ pc = "loop"
    /\ dec.idx < Len(wire) - 1
    /\ dec' = DecodeIteration(wire, dec)
    /\ pc' = IF dec'.err = "none" THEN "loop" ELSE "raised"
    /\ UNCHANGED <<layer, cfg, req, enc, wire, origin>>

\* cobs.py:162, 183: the loop condition fails and decoded is returned
DecodeExit ==
    /\ pc = "loop"
    /\ ~(dec.idx < Len(wire) - 1)
    /\ pc' = "returned"
    /\ UNCHANGED <<layer, cfg, req, enc, wire, origin, dec>>

\* the caller has the result or the exception
DecodeDone ==
    /\ pc \in {"returned", "raised"}
    /\ pc' = "idle"
    /\ wire' = <<>>
    /\ dec' = NoLocals
    /\ UNCHANGED <<layer, cfg, req, enc, origin>>

DecodeLoopNext ==
    \/ DecodeEnter
    \/ DecodeIterate
    \/ DecodeExit
    \/ DecodeDone

\* a call that was entered runs on: nothing suspends the synchronous loop
DecodeLoopSpec ==
    /\ DecodeLoopInit
    /\ [][DecodeLoopNext]_vars
    /\ WF_vars(DecodeIterate)
    /\ WF_vars(DecodeExit)

\* the loop of the call in progress has started at least once or is about to
InLoop == pc = "loop" \/ (pc \in {"returned", "raised"} /\ dec.iterations > 0)

\* C27: frame decode terminates without reading out of bounds.  For every
\* input that passes the shape checks, the index of the decode loop grows
\* on every iteration (every marker read is >= 1) and never exceeds
\* len(frame) - 1, every byte is read at an index < len(frame) - 1, and the
\* loop ends with a result or a ValueError after at most len(frame) - 1
\* iterations.
C27_DecodeLoopTerminates ==
    /\ [](InLoop =>
            /\ dec.idx <= Len(wire) - 1
            /\ dec.last_read < Len(wire) - 1
            /\ dec.iterations <= Len(wire) - 1
            /\ dec.err \in {"none", "ValueError"}
            /\ pc = "raised" <=> dec.err = "ValueError")
    /\ [][(pc = "loop" /\ pc' = "loop") =>
            (wire[dec.idx + 1] >= 1 /\ dec'.idx > dec.idx)]_vars
    /\ (pc = "loop") ~> (pc \in {"returned", "raised"})

\* the frame 01 01 01 00 was decoded in len(frame) - 1 = 3 iterations, the
\* last byte read is the marker at index 2
C27_Witness ==
    /\ pc = "returned"
    /\ wire = <<1, 1, 1, 0>>
    /\ dec.iterations = 3
    /\ dec.idx = 3
    /\ dec.last_read = 2
    /\ dec.decoded = <<0, 0>>

\* the frame f ends with a full block of 254 bytes followed by a marker 1
\* with no data, where the encoder ends the frame after the full block
EmptyBlockAfterFull(f) ==
    /\ Len(f) >= MaxBlock + 2
    /\ f[Len(f) - 1] = 1
    /\ (Len(f) - MaxBlock - 1) \in Markers(f, 1)
    /\ f[Len(f) - MaxBlock - 1] = MaxBlock

\* the accepted frames the encoder never produces
NonCanonical(f) == f = <<1, 1, 0>> \/ EmptyBlockAfterFull(f)

\* C28 as stated: decode accepts only canonical frames.  Every frame f that
\* decode_bytearray accepts is the frame the encoder produces for its decoded
\* bytes, encode_bytearray(decode_bytearray(f)) = f.
C28_OnlyCanonicalFrames ==
    (layer = "cobs" /\ pc = "received" /\ dec.err = "none") =>
        encode_bytearray(dec.data) = Ok(wire)

\* C28 as amended: every accepted frame is the encoder's frame of its decoded
\* bytes, except [0x01, 0x01, 0x00], which decodes to [0x00] like
\* [0x01, 0x00], and the frames that end with a full 255 block followed by a
\* lone marker 0x01, which decode like the frame without that marker.
C28_CanonicalExceptEmptyBlocks ==
    (layer = "cobs" /\ pc = "received" /\ dec.err = "none") =>
        /\ ~NonCanonical(wire) => encode_bytearray(dec.data) = Ok(wire)
        /\ wire = <<1, 1, 0>> => dec.data = <<0>>
        /\ EmptyBlockAfterFull(wire) =>
              encode_bytearray(dec.data) =
                  Ok(Append(SubSeq(wire, 1, Len(wire) - 2), 0))

\* an injected frame of a full block and a block of one byte was accepted,
\* and it is the encoder's frame of its 255 decoded bytes
C28_Witness ==
    /\ layer = "cobs"
    /\ pc = "received"
    /\ origin = "injected"
    /\ wire = <<MaxBlock>> \o NonZeroRun(MaxBlock - 1) \o <<2, 9, 0>>
    /\ dec.err = "none"
    /\ dec.data = NonZeroRun(MaxBlock - 1) \o <<9>>
    /\ encode_bytearray(dec.data).val = wire

\* C29: consistent overhead.  For every non-empty input b of n bytes other
\* than [0x00] the frame has n + 2 + k bytes, k being the number of blocks
\* closed by the 254-byte cap, and k <= floor((n - 1) / 254); the frame of
\* [0x00] has 2 bytes.  Hence n + 1 <= len(frame) <= n + 2 +
\* floor((n - 1) / 254) for every non-empty input.
C29_ConsistentOverhead ==
    (layer = "cobs" /\ origin = "encoder" /\ Len(req.data) >= 1) =>
        LET n == Len(req.data)
            k == Cardinality(Caps(req.data))
        IN  /\ enc.err = "none"
            /\ req.data = <<0>> => Len(enc.val) = 2
            /\ req.data # <<0>> => Len(enc.val) = n + 2 + k
            /\ k <= (n - 1) \div (MaxBlock - 1)
            /\ n + 1 <= Len(enc.val)
            /\ Len(enc.val) <= n + 2 + ((n - 1) \div (MaxBlock - 1))

\* the 256 bytes 0x00 .. 0xFF: one block is closed by the cap, the frame
\* has 259 bytes
C29_Witness ==
    /\ layer = "cobs"
    /\ origin = "encoder"
    /\ pc = "sent"
    /\ req.data = [i \in 1..256 |-> i - 1]
    /\ Cardinality(Caps(req.data)) = 1
    /\ Len(enc.val) = 259
    /\ enc.val[2] = MaxBlock
    /\ enc.val[257] = 2

\* C30: decode never yields the empty sequence.  Whenever decode_bytearray
\* succeeds, the byte array it returns has at least one byte.
C30_DecodeNeverEmpty ==
    (layer = "cobs" /\ pc = "received" /\ dec.err = "none") =>
        Len(dec.data) >= 1

\* the shortest frames that are accepted, 01 00 arriving from outside, gave
\* one byte
C30_Witness ==
    /\ layer = "cobs"
    /\ pc = "received"
    /\ origin = "injected"
    /\ wire = <<1, 0>>
    /\ dec.err = "none"
    /\ dec.data = <<0>>

====
